---------------------------- MODULE Spec2Model ----------------------------
(***************************************************************************)
(* A model of jamjar: the target database (database.py), the jam -d+5     *)
(* trace parser (parsers/_d5.py) and the dependency queries used by the   *)
(* user interface and exercised by test/test_query.py.                    *)
(*                                                                         *)
(* Python objects live in heaps: db.T holds the Target objects, db.R the  *)
(* Rule objects and db.C the RuleCall objects, and an object's identity   *)
(* is its index in its heap.  The two OrderedDicts of the Database are    *)
(* sequences of key/value entries in insertion order.                     *)
(***************************************************************************)
EXTENDS Integers, Sequences, FiniteSets, TLC

VARIABLES
    db,          \* the Database object and every object reachable from it
    ret,         \* what the last operation returned to its caller
    log,         \* history: the add_dependency / add_inclusion calls made
    rule_stack,  \* D5Parser.rule_stack
    trace,       \* history: one entry per line given to D5Parser.parse_line
    fix_pc       \* position of DependencyTest.setUp in its fixture

vars == <<db, ret, log, rule_stack, trace, fix_pc>>

---------------------------------------------------------------------------
(* Bounds of the model *)

\* add_dependency / add_inclusion calls in one behaviour of Spec
MaxOps == 3
\* characters in a search pattern given to find_targets / find_rules
MaxPatLen == 3
\* lines given to the D5 parser in one behaviour of SpecD5
MaxLines == 4

---------------------------------------------------------------------------
(* Strings.  TLC cannot index a string, so the characters of every string *)
(* the model uses are tabulated here; len() and startswith() read them.   *)

Chars(w) ==
    CASE w = "a"  -> <<"a">>
      [] w = "b"  -> <<"b">>
      [] w = "ab" -> <<"a", "b">>
      [] w = "ba" -> <<"b", "a">>
      [] w = ">"  -> <<">">>
      [] w = ">>" -> <<">", ">">>
      [] w = ">|" -> <<">", "|">>
      [] w = ">>>" -> <<">", ">", ">">>
      [] w = ">>>>" -> <<">", ">", ">", ">">>
      [] w = ">>>>>" -> <<">", ">", ">", ">", ">">>
      [] w = ">>>>>>" -> <<">", ">", ">", ">", ">", ">">>
      [] w = ">>>>>>>>" -> <<">", ">", ">", ">", ">", ">", ">", ">">>
      [] w = "S" -> <<"S">>
      [] w = "R" -> <<"R">>
      [] w = ":" -> <<":">>
      [] w = "=" -> <<"=">>
      [] w = "on" -> <<"o", "n">>
      [] w = "set" -> <<"s", "e", "t">>
      [] w = "foo" -> <<"f", "o", "o">>
      [] w = "note" -> <<"n", "o", "t", "e">>
      [] w = "rule" -> <<"r", "u", "l", "e">>
      [] w = "Depends" -> <<"D", "e", "p", "e", "n", "d", "s">>
      [] w = "DEPENDS" -> <<"D", "E", "P", "E", "N", "D", "S">>
      [] w = "depends" -> <<"d", "e", "p", "e", "n", "d", "s">>
      [] w = "Includes" -> <<"I", "n", "c", "l", "u", "d", "e", "s">>
      [] w = "INCLUDES" -> <<"I", "N", "C", "L", "U", "D", "E", "S">>
      [] OTHER -> <<w>>

\* str.startswith(prefix) for a one-character prefix
StartsWith(w, c) == Len(Chars(w)) > 0 /\ Chars(w)[1] = c

---------------------------------------------------------------------------
(* Sequences, OrderedDicts and sets of hashable objects *)

Range(s) == {s[i] : i \in DOMAIN s}

\* x in list
InList(s, x) == \E i \in DOMAIN s : s[i] = x

\* list.index(x): position of the first occurrence (1-based here)
IndexOf(s, x) == CHOOSE i \in DOMAIN s : s[i] = x /\ \A j \in 1..(i - 1) : s[j] # x

\* list.count(x)
Count(s, x) == Cardinality({i \in DOMAIN s : s[i] = x})

\* s[from:] with a 1-based first position
Slice(s, from) == IF from > Len(s) THEN <<>> ELSE SubSeq(s, from, Len(s))

\* key in OrderedDict
DictHas(d, k) == \E i \in DOMAIN d : d[i].k = k

\* OrderedDict[key]
DictGet(d, k) == d[CHOOSE i \in DOMAIN d : d[i].k = k].v

\* OrderedDict[key] = value: a new key goes last, an old key keeps its place
DictSet(d, k, v) ==
    IF DictHas(d, k)
    THEN [i \in DOMAIN d |-> IF d[i].k = k THEN [k |-> k, v |-> v] ELSE d[i]]
    ELSE Append(d, [k |-> k, v |-> v])

---------------------------------------------------------------------------
(* database.py: Target *)

\* Target.__init__
NewTarget(name) ==
    [name |-> name, deps |-> <<>>, deps_rev |-> {}, incs |-> <<>>,
     incs_rev |-> {}, variables |-> <<>>, rule_calls |-> <<>>]

\* Target.__eq__ on two Target objects of the heap T
TargetEq(T, x, y) == T[x].name = T[y].name

\* "target in set": a set of Targets compares its members with __eq__/__hash__
InTargetSet(T, S, x) == \E y \in S : TargetEq(T, x, y)

\* set.add(target): an equal member already there is kept
TargetSetAdd(T, S, x) == IF InTargetSet(T, S, x) THEN S ELSE S \cup {x}

\* a plausible slip in add_dependency: the membership test is forgotten
add_dependency_nocheck(d, self, other) ==
    [d EXCEPT !.T = [d.T EXCEPT ![self].deps = Append(@, other),
                                ![other].deps_rev = TargetSetAdd(d.T, @, self)]]

\* a plausible slip in add_dependency: the new dependency is put first
add_dependency_prepend(d, self, other) ==
    IF ~InTargetSet(d.T, d.T[other].deps_rev, self)
    THEN [d EXCEPT !.T = [d.T EXCEPT ![self].deps = <<other>> \o @,
                                     ![other].deps_rev = TargetSetAdd(d.T, @, self)]]
    ELSE d

\* Target.add_dependency(self, other)
add_dependency(d, self, other) ==
    IF ~InTargetSet(d.T, d.T[other].deps_rev, self)
    THEN [d EXCEPT !.T = [d.T EXCEPT ![self].deps = Append(@, other),
                                     ![other].deps_rev = TargetSetAdd(d.T, @, self)]]
    ELSE d

\* a plausible slip in add_inclusion: the reverse set consulted is the wrong one
add_inclusion_wrongset(d, self, other) ==
    IF ~InTargetSet(d.T, d.T[other].deps_rev, self)
    THEN [d EXCEPT !.T = [d.T EXCEPT ![self].incs = Append(@, other),
                                     ![other].incs_rev = TargetSetAdd(d.T, @, self)]]
    ELSE d

\* a plausible slip in add_inclusion: the new inclusion is put first
add_inclusion_prepend(d, self, other) ==
    IF ~InTargetSet(d.T, d.T[other].incs_rev, self)
    THEN [d EXCEPT !.T = [d.T EXCEPT ![self].incs = <<other>> \o @,
                                     ![other].incs_rev = TargetSetAdd(d.T, @, self)]]
    ELSE d

\* a plausible slip in add_inclusion: only the reverse set is updated
add_inclusion_norecord(d, self, other) ==
    IF ~InTargetSet(d.T, d.T[other].incs_rev, self)
    THEN [d EXCEPT !.T = [d.T EXCEPT ![other].incs_rev = TargetSetAdd(d.T, @, self)]]
    ELSE d

\* Target.add_inclusion(self, other)
add_inclusion(d, self, other) ==
    IF ~InTargetSet(d.T, d.T[other].incs_rev, self)
    THEN [d EXCEPT !.T = [d.T EXCEPT ![self].incs = Append(@, other),
                                     ![other].incs_rev = TargetSetAdd(d.T, @, self)]]
    ELSE d

\* Target.set_var_value(self, variable_name, values)
set_var_value(d, self, variable_name, values) ==
    [d EXCEPT !.T = [d.T EXCEPT ![self].variables = DictSet(@, variable_name, values)]]

\* a plausible slip in add_rule_call: the list of the role is started afresh
add_rule_call_replace(d, self, target_type, rule_call) ==
    [d EXCEPT !.T = [d.T EXCEPT ![self].rule_calls =
            DictSet(d.T[self].rule_calls, target_type, <<rule_call>>)]]

\* Target.add_rule_call(self, target_type, rule_call)
add_rule_call(d, self, target_type, rule_call) ==
    LET rc == d.T[self].rule_calls
        rc1 == IF ~DictHas(rc, target_type) THEN DictSet(rc, target_type, <<>>) ELSE rc
    IN [d EXCEPT !.T = [d.T EXCEPT ![self].rule_calls =
            DictSet(rc1, target_type, Append(DictGet(rc1, target_type), rule_call))]]

---------------------------------------------------------------------------
(* database.py: Database *)

\* Database.__init__ (with the empty heaps of the objects it will own)
NewDatabase == [targets |-> <<>>, rules |-> <<>>, T |-> <<>>, R |-> <<>>, C |-> <<>>]

\* a plausible slip in get_target: the lookup is skipped, a Target is always made
get_target_always_new(d, name) ==
    LET id == Len(d.T) + 1
    IN [db |-> [d EXCEPT !.T = Append(d.T, NewTarget(name)),
                         !.targets = DictSet(d.targets, name, id)],
        target |-> id]

\* Database.get_target(self, name): the database after the call, and the Target
get_target(d, name) ==
    IF DictHas(d.targets, name)
    THEN [db |-> d, target |-> DictGet(d.targets, name)]
    ELSE LET id == Len(d.T) + 1
         IN [db |-> [d EXCEPT !.T = Append(d.T, NewTarget(name)),
                              !.targets = DictSet(d.targets, name, id)],
             target |-> id]


\* a plausible slip in get_rule: the name is only tested, the Rule returned is
\* the first of the mapping
get_rule_first(d, name) == IF DictHas(d.rules, name) THEN d.rules[1].v ELSE 0

\* Database.get_rule(self, name): the Rule, or None (0 here)
get_rule(d, name) == IF DictHas(d.rules, name) THEN DictGet(d.rules, name) ELSE 0

\* Rule.__init__
NewRule(name) == [name |-> name, calls |-> <<>>]

\* a plausible slip in declare_rule: the lookup is skipped, a Rule is always made
declare_rule_always_new(d, name) ==
    LET id == Len(d.R) + 1
    IN [db |-> [d EXCEPT !.R = Append(d.R, [name |-> name, calls |-> <<>>]),
                         !.rules = DictSet(d.rules, name, id)],
        rule |-> id]

\* Database.declare_rule(self, name): the database after the call, and the Rule
declare_rule(d, name) ==
    IF DictHas(d.rules, name)
    THEN [db |-> d, rule |-> DictGet(d.rules, name)]
    ELSE LET id == Len(d.R) + 1
         IN [db |-> [d EXCEPT !.R = Append(d.R, NewRule(name)),
                              !.rules = DictSet(d.rules, name, id)],
             rule |-> id]

---------------------------------------------------------------------------
(* re.search as database.py uses it.  A pattern is the sequence of its    *)
(* characters; the model knows literals, '.', a postfix '*' and an        *)
(* unterminated '[', which is enough for valid and invalid patterns.      *)

PatAlphabet == {"a", "b", ".", "*", "["}

\* re.compile accepts the pattern: no '[' (no ']' can close it here), and
\* every '*' follows something that can be repeated
re_valid(p) ==
    /\ \A i \in DOMAIN p : p[i] # "["
    /\ \A i \in DOMAIN p : p[i] = "*" => (i > 1 /\ p[i - 1] # "*")

\* one pattern character against one subject character
re_char(c, x) == c = "." \/ c = x

\* the pattern from position i matches the subject starting at position j
RECURSIVE re_here(_, _, _, _)
re_here(p, i, s, j) ==
    IF i > Len(p) THEN TRUE
    ELSE IF i + 1 <= Len(p) /\ p[i + 1] = "*"
         THEN \/ re_here(p, i + 2, s, j)
              \/ (j <= Len(s) /\ re_char(p[i], s[j]) /\ re_here(p, i, s, j + 1))
         ELSE j <= Len(s) /\ re_char(p[i], s[j]) /\ re_here(p, i + 1, s, j + 1)

\* a plausible slip: re.match, which looks at the start of the name only
re_match_only(p, s) ==
    IF ~re_valid(p) THEN [err |-> TRUE, hit |-> FALSE]
    ELSE [err |-> FALSE, hit |-> re_here(p, 1, s, 1)]

\* re.search(pattern, string): re.error for an invalid pattern, else whether
\* the pattern matches somewhere in the string
re_search(p, s) ==
    IF ~re_valid(p) THEN [err |-> TRUE, hit |-> FALSE]
    ELSE [err |-> FALSE, hit |-> \E j \in 1..(Len(s) + 1) : re_here(p, 1, s, j)]

\* the loop of find_targets / find_rules over the items of an OrderedDict,
\* consumed to its end as list(...) does: the entities yielded, or ValueError
RECURSIVE find_loop(_, _, _, _)
find_loop(items, name_regex, i, yielded) ==
    IF i > Len(items) THEN [err |-> FALSE, val |-> yielded]
    ELSE LET m == re_search(name_regex, Chars(items[i].k))
         IN IF m.err THEN [err |-> TRUE, val |-> yielded]
            ELSE find_loop(items, name_regex, i + 1,
                           IF m.hit THEN Append(yielded, items[i].v) ELSE yielded)

\* list(Database.find_targets(name_regex))
find_targets(d, name_regex) == find_loop(d.targets, name_regex, 1, <<>>)

\* list(Database.find_rules(name_regex))
find_rules(d, name_regex) == find_loop(d.rules, name_regex, 1, <<>>)

---------------------------------------------------------------------------
(* database.py: Rule and RuleCall *)

\* the attributes RuleCall.__init__ sets before it reads its arguments
NewRuleCall(rule, number) ==
    [rule |-> rule, caller |-> 0, sub_calls |-> <<>>, args |-> << <<>> >>,
     id_number |-> number]

\* the loop of RuleCall.__init__ over arg_list, from element i on
RECURSIVE rulecall_args(_, _, _, _, _)
rulecall_args(d, self, arg_list, i, arg_index) ==
    IF i > Len(arg_list) THEN d
    ELSE IF arg_list[i] = ":"
         THEN rulecall_args([d EXCEPT !.C[self].args = Append(@, <<>>)],
                            self, arg_list, i + 1, arg_index + 1)
         ELSE LET g == get_target(d, arg_list[i])
                  d1 == [g.db EXCEPT !.C[self].args[arg_index + 1] = Append(@, g.target)]
                  role == IF arg_index = 0 THEN "target"
                          ELSE IF arg_index = 1 THEN "source" ELSE "other"
              IN rulecall_args(add_rule_call(d1, g.target, role, self),
                               self, arg_list, i + 1, arg_index)

\* RuleCall.__init__(self, rule, db, arg_list, number)
RuleCall(d, rule, arg_list, number) ==
    LET self == Len(d.C) + 1
        d0 == [d EXCEPT !.C = Append(d.C, NewRuleCall(rule, number))]
    IN [db |-> rulecall_args(d0, self, arg_list, 1, 0), call |-> self]

\* a plausible slip in add_call: the number is the count of all calls of the
\* database, not of this rule
add_call_count_all(d, self, arg_list) ==
    LET n == RuleCall(d, self, arg_list, Len(d.C))
    IN [db |-> [n.db EXCEPT !.R[self].calls = Append(@, n.call)], call |-> n.call]

\* Rule.add_call(self, db, arg_list)
add_call(d, self, arg_list) ==
    LET n == RuleCall(d, self, arg_list, Len(d.R[self].calls))
    IN [db |-> [n.db EXCEPT !.R[self].calls = Append(@, n.call)], call |-> n.call]

\* a plausible slip in set_caller: the assertion is left out
set_caller_overwrite(d, self, caller) ==
    [err |-> FALSE, db |-> [d EXCEPT !.C[self].caller = caller]]

\* RuleCall.set_caller(self, caller): the assertion fails when a caller is set
set_caller(d, self, caller) ==
    IF d.C[self].caller # 0
    THEN [err |-> TRUE, db |-> d]
    ELSE [err |-> FALSE, db |-> [d EXCEPT !.C[self].caller = caller]]

\* a plausible slip in add_sub_call: the new sub-call is put first
add_sub_call_prepend(d, self, call) == [d EXCEPT !.C[self].sub_calls = <<call>> \o @]

\* RuleCall.add_sub_call(self, call)
add_sub_call(d, self, call) == [d EXCEPT !.C[self].sub_calls = Append(@, call)]

---------------------------------------------------------------------------
(* The database driven directly: Spec.  Targets are obtained from the     *)
(* database, as every caller in the repository's parsers obtains them.    *)

\* the names callers ask for
Names == {"a", "ab", "ba"}

\* the Target objects created so far
TargetIds == DOMAIN db.T

\* what the last call returned: the operation, its name argument, its pattern
\* argument, its numeric argument, the value returned and whether it failed
NoRet ==
    [op |-> "none", name |-> "", pat |-> <<>>, arg |-> 0, val |-> <<>>, err |-> FALSE]

\* D5Parser.__init__: rule_stack = [dict()]; a frame's missing keys are
\* line = <<>> and rule_call = 0
BaseFrame == [line |-> <<>>, rule_call |-> 0]

Init ==
    /\ db = NewDatabase
    /\ ret = NoRet
    /\ log = <<>>
    /\ rule_stack = <<BaseFrame>>
    /\ trace = <<>>
    /\ fix_pc = 0

\* db.get_target(name)
GetTarget(n) ==
    LET g == get_target(db, n)
    IN /\ db' = g.db
       /\ ret' = [NoRet EXCEPT !.op = "get_target", !.name = n, !.val = <<g.target>>,
                               !.pat = ret.pat]
       /\ UNCHANGED <<log, rule_stack, trace, fix_pc>>

\* a.add_dependency(b) on two targets of the database
AddDependency(a, b) ==
    /\ Len(log) < MaxOps
    /\ db' = add_dependency(db, a, b)
    /\ log' = Append(log, [op |-> "dep", a |-> a, b |-> b])
    /\ ret' = NoRet
    /\ UNCHANGED <<rule_stack, trace, fix_pc>>

\* a.add_inclusion(b) on two targets of the database
AddInclusion(a, b) ==
    /\ Len(log) < MaxOps
    /\ db' = add_inclusion(db, a, b)
    /\ log' = Append(log, [op |-> "inc", a |-> a, b |-> b])
    /\ ret' = NoRet
    /\ UNCHANGED <<rule_stack, trace, fix_pc>>

Next ==
    \/ \E n \in Names : GetTarget(n)
    \/ \E a \in TargetIds, b \in TargetIds : AddDependency(a, b)
    \/ \E a \in TargetIds, b \in TargetIds : AddInclusion(a, b)

Spec == Init /\ [][Next]_vars

---------------------------------------------------------------------------
(* Claims about the database driven directly (Spec) *)

\* the Targets that self.add_<kind>(b) was called with, in call order
RECURSIVE AddedTo(_, _, _)
AddedTo(kind, self, n) ==
    IF n = 0 THEN <<>>
    ELSE IF log[n].op = kind /\ log[n].a = self
         THEN Append(AddedTo(kind, self, n - 1), log[n].b)
         ELSE AddedTo(kind, self, n - 1)

\* a sequence with every repeated element dropped, the first one kept
RECURSIVE FirstSeen(_)
FirstSeen(s) ==
    IF s = <<>> THEN <<>>
    ELSE LET front == FirstSeen(SubSeq(s, 1, Len(s) - 1))
         IN IF InList(front, s[Len(s)]) THEN front ELSE Append(front, s[Len(s)])

\* the Targets that called add_<kind>(other)
AddersOf(kind, other) ==
    {log[i].a : i \in {j \in DOMAIN log : log[j].op = kind /\ log[j].b = other}}

\* how often self.add_<kind>(other) was called
TimesAdded(kind, self, other) ==
    Cardinality({i \in DOMAIN log : log[i] = [op |-> kind, a |-> self, b |-> other]})

\* the store's view: every name is a key of _targets once and maps to the one
\* Target object ever made for it
OneTargetPerName ==
    /\ \A i \in DOMAIN db.T, j \in DOMAIN db.T : db.T[i].name = db.T[j].name => i = j
    /\ \A i \in DOMAIN db.targets, j \in DOMAIN db.targets :
          db.targets[i].k = db.targets[j].k => i = j
    /\ \A i \in DOMAIN db.targets :
          db.targets[i].v \in DOMAIN db.T /\ db.T[db.targets[i].v].name = db.targets[i].k
    /\ Len(db.targets) = Len(db.T)

\* what one get_target(n) call does
GetTargetEffect(n) ==
    /\ ~ret'.err
    /\ Len(ret'.val) = 1
    /\ db'.T[ret'.val[1]].name = n
    /\ DictHas(db'.targets, n) /\ DictGet(db'.targets, n) = ret'.val[1]
    /\ IF DictHas(db.targets, n)
       THEN /\ ret'.val[1] = DictGet(db.targets, n)
            /\ db' = db
       ELSE /\ Len(db'.targets) = Len(db.targets) + 1
            /\ Len(db'.T) = Len(db.T) + 1
            /\ ret'.val[1] \notin DOMAIN db.T

\* C1: after any sequence of operations the store holds at most one Target per
\* name; get_target(name) creates and registers a Target on the first call for
\* the name, every later call returns that same instance and leaves the stored
\* targets as they are, and the call never fails.
C1_GetTargetCanonical ==
    /\ []OneTargetPerName
    /\ [][\A n \in Names : GetTarget(n) => GetTargetEffect(n)]_vars

\* C1 witness: a second target exists and get_target has just returned the first
\* Target made, so this was a later call for its name
C1_Witness ==
    /\ Len(db.targets) >= 2
    /\ ret.op = "get_target" /\ ret.val = <<1>>
    /\ ret.name = db.T[1].name

\* C2: add_dependency is idempotent: once A.add_dependency(B) has been applied
\* two or more times (A = B included), whatever add_dependency / add_inclusion
\* calls came in between, A.deps holds B exactly once and B.deps_rev holds A
\* exactly once.
C2_AddDependencyIdempotent ==
    \A a \in TargetIds, b \in TargetIds :
        TimesAdded("dep", a, b) >= 2 =>
            /\ Count(db.T[a].deps, b) = 1
            /\ Cardinality({x \in db.T[b].deps_rev : TargetEq(db.T, x, a)}) = 1

\* C2 witness: A.add_dependency(B) twice with another call between the two
C2_Witness ==
    \E a \in TargetIds, b \in TargetIds :
        /\ Len(log) = 3
        /\ log[1] = [op |-> "dep", a |-> a, b |-> b]
        /\ log[3] = log[1]
        /\ log[2] # log[1]
        /\ Count(db.T[a].deps, b) = 1

\* C3: after any sequence of add_dependency calls on targets with distinct
\* names, each target's deps lists its dependencies in the order in which they
\* were first added and its deps_rev is exactly the set of targets that added
\* it (A+C, A+B, C+B gives A.deps = [C,B], B.deps_rev = {A,C}, C.deps_rev = {A},
\* A.deps_rev = {}).
C3_DepsInFirstAddedOrder ==
    \A t \in TargetIds :
        /\ db.T[t].deps = FirstSeen(AddedTo("dep", t, Len(log)))
        /\ db.T[t].deps_rev = AddersOf("dep", t)

\* C3 witness: the calls A+C, A+B, C+B of TargetTest.test_add_dependency
C3_Witness ==
    \E a \in TargetIds, b \in TargetIds, c \in TargetIds :
        /\ a # b /\ a # c /\ b # c
        /\ log = << [op |-> "dep", a |-> a, b |-> c], [op |-> "dep", a |-> a, b |-> b],
                    [op |-> "dep", a |-> c, b |-> b] >>
        /\ db.T[a].deps = <<c, b>> /\ db.T[b].deps = <<>> /\ db.T[c].deps = <<b>>
        /\ db.T[b].deps_rev = {a, c} /\ db.T[c].deps_rev = {a} /\ db.T[a].deps_rev = {}

\* C4: add_inclusion obeys the same rule on incs / incs_rev: after any sequence
\* of add_inclusion calls a pair (A,B) observed one or more times is in A.incs
\* exactly once and A in B.incs_rev exactly once, A.incs is in order of first
\* observation, and B.incs_rev is exactly the set of targets that included B.
C4_AddInclusionLikeDependency ==
    \A t \in TargetIds :
        /\ db.T[t].incs = FirstSeen(AddedTo("inc", t, Len(log)))
        /\ db.T[t].incs_rev = AddersOf("inc", t)
        /\ \A u \in TargetIds :
              TimesAdded("inc", t, u) >= 1 =>
                  /\ Count(db.T[t].incs, u) = 1
                  /\ Cardinality({x \in db.T[u].incs_rev : TargetEq(db.T, x, t)}) = 1

\* C4 witness: a pair included twice, after the same pair was added as a
\* dependency
C4_Witness ==
    \E a \in TargetIds, b \in TargetIds :
        /\ a # b
        /\ log = << [op |-> "dep", a |-> a, b |-> b], [op |-> "inc", a |-> a, b |-> b],
                    [op |-> "inc", a |-> a, b |-> b] >>
        /\ db.T[a].incs = <<b>> /\ db.T[b].incs_rev = {a}

---------------------------------------------------------------------------
(* Searching the database: SpecFind.  Targets and rules are registered in *)
(* any order and searched at any time.  The find operations change        *)
(* nothing, so one behaviour searches with one pattern, drawn at the      *)
(* start and kept in ret.pat; the behaviours cover every pattern.         *)

\* every pattern of at most MaxPatLen characters, valid or not
Patterns == UNION {[1..n -> PatAlphabet] : n \in 0..MaxPatLen}

\* db.declare_rule(name)
DeclareRule(n) ==
    LET r == declare_rule(db, n)
    IN /\ db' = r.db
       /\ ret' = [NoRet EXCEPT !.op = "declare_rule", !.name = n, !.val = <<r.rule>>,
                               !.pat = ret.pat]
       /\ UNCHANGED <<log, rule_stack, trace, fix_pc>>

\* list(db.find_targets(pattern)), as ui.py calls it
FindTargets ==
    LET r == find_targets(db, ret.pat)
    IN /\ ret' = [NoRet EXCEPT !.op = "find_targets", !.pat = ret.pat, !.val = r.val,
                               !.err = r.err]
       /\ UNCHANGED <<db, log, rule_stack, trace, fix_pc>>

\* list(db.find_rules(pattern)), as ui.py calls it
FindRules ==
    LET r == find_rules(db, ret.pat)
    IN /\ ret' = [NoRet EXCEPT !.op = "find_rules", !.pat = ret.pat, !.val = r.val,
                               !.err = r.err]
       /\ UNCHANGED <<db, log, rule_stack, trace, fix_pc>>

InitFind ==
    /\ db = NewDatabase
    /\ \E p \in Patterns : ret = [NoRet EXCEPT !.pat = p]
    /\ log = <<>>
    /\ rule_stack = <<BaseFrame>>
    /\ trace = <<>>
    /\ fix_pc = 0

NextFind ==
    \/ \E n \in Names : GetTarget(n)
    \/ \E n \in Names : DeclareRule(n)
    \/ FindTargets
    \/ FindRules

SpecFind == InitFind /\ [][NextFind]_vars

---------------------------------------------------------------------------
(* Claims about searching (SpecFind) *)

\* the pattern from position i matches the whole of u from position j to its end
RECURSIVE MatchesWhole(_, _, _, _)
MatchesWhole(p, i, u, j) ==
    IF i > Len(p) THEN j = Len(u) + 1
    ELSE IF i < Len(p) /\ p[i + 1] = "*"
         THEN \/ MatchesWhole(p, i + 2, u, j)
              \/ /\ j <= Len(u)
                 /\ (p[i] = "." \/ p[i] = u[j])
                 /\ MatchesWhole(p, i, u, j + 1)
         ELSE /\ j <= Len(u)
              /\ (p[i] = "." \/ p[i] = u[j])
              /\ MatchesWhole(p, i + 1, u, j + 1)

\* some contiguous part of the name (the empty one included) matches the pattern
ContainsMatch(p, name) ==
    LET s == Chars(name)
    IN \E i \in 1..(Len(s) + 1) : \E j \in (i - 1)..Len(s) :
          MatchesWhole(p, 1, SubSeq(s, i, j), 1)

\* position of the entry holding object v in an OrderedDict
PosOf(items, v) == CHOOSE i \in DOMAIN items : items[i].v = v

\* result is exactly the values of items whose key contains a match, each once,
\* in the order of the items
ExactlyTheMatches(result, items, p) ==
    /\ \A v \in Range(result) : \E i \in DOMAIN items : items[i].v = v
    /\ \A i \in DOMAIN items :
          Count(result, items[i].v) = IF ContainsMatch(p, items[i].k) THEN 1 ELSE 0
    /\ \A i \in DOMAIN result, j \in DOMAIN result :
          i < j => PosOf(items, result[i]) < PosOf(items, result[j])

\* an OrderedDict lists its objects in the order they were created
InCreationOrder(items) == \A i \in DOMAIN items : items[i].v = i

\* C5: for a valid pattern find_targets(pattern) (and find_rules(pattern) over
\* rules) yields exactly the stored entities whose name contains a match of the
\* pattern anywhere in the name (search, not full match), each once, in the
\* order in which they were first created in the store.
C5_FindYieldsMatchesInOrder ==
    /\ InCreationOrder(db.targets) /\ InCreationOrder(db.rules)
    /\ (ret.op = "find_targets" /\ re_valid(ret.pat)) =>
          (~ret.err /\ ExactlyTheMatches(ret.val, db.targets, ret.pat))
    /\ (ret.op = "find_rules" /\ re_valid(ret.pat)) =>
          (~ret.err /\ ExactlyTheMatches(ret.val, db.rules, ret.pat))

\* C5 witness: find_targets("b") has yielded "ab" and then "ba", of three stored
\* targets; "ab" matches in the middle of the name only
C5_Witness ==
    /\ ret.op = "find_targets" /\ ret.pat = <<"b">>
    /\ Len(db.targets) = 3 /\ Len(ret.val) = 2
    /\ db.T[ret.val[1]].name = "ab" /\ db.T[ret.val[2]].name = "ba"

\* C6: in every store state, a store without targets (without rules) included,
\* find_targets(pattern) and find_rules(pattern) with a syntactically invalid
\* pattern end in the InvalidPattern error and never in an empty result.
C6_InvalidPatternAlwaysFails ==
    (ret.op \in {"find_targets", "find_rules"} /\ ~re_valid(ret.pat)) => ret.err

---------------------------------------------------------------------------
(* parsers/_d5.py: D5Parser.  A line is the sequence of its whitespace    *)
(* separated words, what line.split() makes of it.                        *)

\* the constant of get_rule_depth
even_stack_depth_max == 35

\* a plausible slip in get_rule_depth: the branch for odd lengths is missing
get_rule_depth_halved(word) == Len(Chars(word)) \div 2

\* D5Parser.get_rule_depth(self, word)
get_rule_depth(word) ==
    LET n == Len(Chars(word))
    IN IF n % 2 = 0 THEN n \div 2 ELSE (even_stack_depth_max + n) \div 2

\* a plausible slip in the stack loop: ">=" for ">", the enclosing frame goes too
RECURSIVE pop_frames_too_far(_, _)
pop_frames_too_far(rs, depth) ==
    IF Len(rs) >= depth /\ Len(rs) > 1
    THEN pop_frames_too_far(SubSeq(rs, 1, Len(rs) - 1), depth)
    ELSE rs

\* while len(self.rule_stack) > depth: self.rule_stack.pop()
RECURSIVE pop_frames(_, _)
pop_frames(rs, depth) ==
    IF Len(rs) > depth THEN pop_frames(SubSeq(rs, 1, Len(rs) - 1), depth) ELSE rs

\* "Handle the rule stack" of parse_line: pop, then push the frame of the line
handle_rule_stack(rs, words) ==
    Append(pop_frames(rs, get_rule_depth(words[1])), [line |-> words, rule_call |-> 0])

\* words[lo:hi] of Python (0-based lo, hi excluded)
PySlice(words, lo, hi) == IF hi <= lo THEN <<>> ELSE SubSeq(words, lo + 1, hi)

\* D5Parser.parse_decl_line(self, words)
parse_decl_line(d, words) ==
    IF words[2] = "rule" /\ Len(words) = 3
    THEN [hit |-> TRUE, db |-> declare_rule(d, words[3]).db]
    ELSE [hit |-> FALSE, db |-> d]

\* the loop of parse_set_line over target_names, from element i on
RECURSIVE set_loop(_, _, _, _, _)
set_loop(d, target_names, i, variable_name, values) ==
    IF i > Len(target_names) THEN d
    ELSE LET g == get_target(d, target_names[i])
         IN set_loop(set_var_value(g.db, g.target, variable_name, values),
                     target_names, i + 1, variable_name, values)

\* D5Parser.parse_set_line(self, words)
parse_set_line(d, words) ==
    IF /\ Len(words) > 5
       /\ words[2] = "set"
       /\ words[4] = "on"
       /\ InList(Slice(words, 6), "=")
    THEN LET eq == IndexOf(words, "=") - 1
         IN [hit |-> TRUE,
             db |-> set_loop(d, PySlice(words, 4, eq), 1, words[3], Slice(words, eq + 2))]
    ELSE [hit |-> FALSE, db |-> d]

\* a plausible slip in parse_dep_line: only the first name after the ':' is
\* taken
dep_inner_first_only(d, x_targ, ys, j) ==
    IF j > Len(ys) THEN d
    ELSE LET g == get_target(d, ys[j])
         IN add_dependency(g.db, x_targ, g.target)

\* the inner loop of parse_dep_line over the names after the ':'
RECURSIVE dep_inner(_, _, _, _)
dep_inner(d, x_targ, ys, j) ==
    IF j > Len(ys) THEN d
    ELSE LET g == get_target(d, ys[j])
         IN dep_inner(add_dependency(g.db, x_targ, g.target), x_targ, ys, j + 1)

\* the outer loop of parse_dep_line over the names before the ':'
RECURSIVE dep_outer(_, _, _, _)
dep_outer(d, xs, i, ys) ==
    IF i > Len(xs) THEN d
    ELSE LET g == get_target(d, xs[i])
         IN dep_outer(dep_inner(g.db, g.target, ys, 1), xs, i + 1, ys)

\* a plausible slip in parse_dep_line: the keyword is compared in one spelling
parse_dep_line_one_spelling(d, words) ==
    IF /\ Len(words) > 3
       /\ words[2] = "Depends"
       /\ InList(Slice(words, 4), ":")
    THEN LET colon == IndexOf(words, ":") - 1
         IN [hit |-> TRUE,
             db |-> dep_outer(d, PySlice(words, 2, colon), 1, Slice(words, colon + 2))]
    ELSE [hit |-> FALSE, db |-> d]

\* D5Parser.parse_dep_line(self, words)
parse_dep_line(d, words) ==
    IF /\ Len(words) > 3
       /\ (words[2] = "Depends" \/ words[2] = "DEPENDS")
       /\ InList(Slice(words, 4), ":")
    THEN LET colon == IndexOf(words, ":") - 1
         IN [hit |-> TRUE,
             db |-> dep_outer(d, PySlice(words, 2, colon), 1, Slice(words, colon + 2))]
    ELSE [hit |-> FALSE, db |-> d]

\* the inner loop of parse_inc_line over the names after the ':'
RECURSIVE inc_inner(_, _, _, _)
inc_inner(d, x_targ, ys, j) ==
    IF j > Len(ys) THEN d
    ELSE LET g == get_target(d, ys[j])
         IN inc_inner(add_inclusion(g.db, x_targ, g.target), x_targ, ys, j + 1)

\* the outer loop of parse_inc_line over the names before the ':'
RECURSIVE inc_outer(_, _, _, _)
inc_outer(d, xs, i, ys) ==
    IF i > Len(xs) THEN d
    ELSE LET g == get_target(d, xs[i])
         IN inc_outer(inc_inner(g.db, g.target, ys, 1), xs, i + 1, ys)

\* D5Parser.parse_inc_line(self, words)
parse_inc_line(d, words) ==
    IF /\ Len(words) > 3
       /\ (words[2] = "Includes" \/ words[2] = "INCLUDES")
       /\ InList(Slice(words, 4), ":")
    THEN LET colon == IndexOf(words, ":") - 1
         IN [hit |-> TRUE,
             db |-> inc_outer(d, PySlice(words, 2, colon), 1, Slice(words, colon + 2))]
    ELSE [hit |-> FALSE, db |-> d]

\* a plausible slip in parse_call_line: a rule not yet declared is declared on
\* its first invocation
parse_call_line_declares(d, rs, words) ==
    LET dr == declare_rule(d, words[2])
        c == add_call(dr.db, dr.rule, Slice(words, 3))
        rs1 == [rs EXCEPT ![Len(rs)].rule_call = c.call]
    IN IF Len(rs1) > 1 /\ rs1[Len(rs1) - 1].rule_call # 0
       THEN LET sc == set_caller(c.db, c.call, rs1[Len(rs1) - 1].rule_call)
            IN IF sc.err
               THEN [hit |-> TRUE, db |-> sc.db, rs |-> rs1, err |-> TRUE]
               ELSE [hit |-> TRUE,
                     db |-> add_sub_call(sc.db, rs1[Len(rs1) - 1].rule_call, c.call),
                     rs |-> rs1, err |-> FALSE]
       ELSE [hit |-> TRUE, db |-> c.db, rs |-> rs1, err |-> FALSE]

\* a plausible slip in parse_call_line: the caller is looked for down the
\* stack, past the frames that hold no call
parse_call_line_skips_frames(d, rs, words) ==
    IF get_rule(d, words[2]) # 0
    THEN LET rule_object == get_rule(d, words[2])
             c == add_call(d, rule_object, Slice(words, 3))
             rs1 == [rs EXCEPT ![Len(rs)].rule_call = c.call]
             below == {p \in 1..(Len(rs1) - 1) : rs1[p].rule_call # 0}
         IN IF below # {}
            THEN LET top == CHOOSE p \in below : \A q \in below : q <= p
                     sc == set_caller(c.db, c.call, rs1[top].rule_call)
                 IN IF sc.err
                    THEN [hit |-> TRUE, db |-> sc.db, rs |-> rs1, err |-> TRUE]
                    ELSE [hit |-> TRUE,
                          db |-> add_sub_call(sc.db, rs1[top].rule_call, c.call),
                          rs |-> rs1, err |-> FALSE]
            ELSE [hit |-> TRUE, db |-> c.db, rs |-> rs1, err |-> FALSE]
    ELSE [hit |-> FALSE, db |-> d, rs |-> rs, err |-> FALSE]

\* a plausible slip in parse_call_line: set_caller is called the wrong way
\* round, on the enclosing call with the new call as its caller
parse_call_line_swapped(d, rs, words) ==
    IF get_rule(d, words[2]) # 0
    THEN LET rule_object == get_rule(d, words[2])
             c == add_call(d, rule_object, Slice(words, 3))
             rs1 == [rs EXCEPT ![Len(rs)].rule_call = c.call]
         IN IF Len(rs1) > 1 /\ rs1[Len(rs1) - 1].rule_call # 0
            THEN LET sc == set_caller(c.db, rs1[Len(rs1) - 1].rule_call, c.call)
                 IN IF sc.err
                    THEN [hit |-> TRUE, db |-> sc.db, rs |-> rs1, err |-> TRUE]
                    ELSE [hit |-> TRUE,
                          db |-> add_sub_call(sc.db, rs1[Len(rs1) - 1].rule_call, c.call),
                          rs |-> rs1, err |-> FALSE]
            ELSE [hit |-> TRUE, db |-> c.db, rs |-> rs1, err |-> FALSE]
    ELSE [hit |-> FALSE, db |-> d, rs |-> rs, err |-> FALSE]

\* D5Parser.parse_call_line(self, words); err is the AssertionError of set_caller
parse_call_line(d, rs, words) ==
    IF get_rule(d, words[2]) # 0
    THEN LET rule_object == get_rule(d, words[2])
             c == add_call(d, rule_object, Slice(words, 3))
             rs1 == [rs EXCEPT ![Len(rs)].rule_call = c.call]
         IN IF Len(rs1) > 1 /\ rs1[Len(rs1) - 1].rule_call # 0
            THEN LET sc == set_caller(c.db, c.call, rs1[Len(rs1) - 1].rule_call)
                 IN IF sc.err
                    THEN [hit |-> TRUE, db |-> sc.db, rs |-> rs1, err |-> TRUE]
                    ELSE [hit |-> TRUE,
                          db |-> add_sub_call(sc.db, rs1[Len(rs1) - 1].rule_call, c.call),
                          rs |-> rs1, err |-> FALSE]
            ELSE [hit |-> TRUE, db |-> c.db, rs |-> rs1, err |-> FALSE]
    ELSE [hit |-> FALSE, db |-> d, rs |-> rs, err |-> FALSE]

\* whether parse_line goes past its two early returns
Qualifying(words) == Len(words) >= 2 /\ StartsWith(words[1], ">")

\* a plausible slip in parse_line: the invocation classifier is tried first
parse_line_call_first(d, rs, words) ==
    IF ~Qualifying(words) THEN [db |-> d, rs |-> rs, err |-> FALSE]
    ELSE LET rs1 == handle_rule_stack(rs, words)
             decl == parse_decl_line(d, words)
             setl == parse_set_line(d, words)
             depl == parse_dep_line(d, words)
             incl == parse_inc_line(d, words)
             call == parse_call_line(d, rs1, words)
         IN IF call.hit THEN [db |-> call.db, rs |-> call.rs, err |-> call.err]
            ELSE IF decl.hit THEN [db |-> decl.db, rs |-> rs1, err |-> FALSE]
            ELSE IF setl.hit THEN [db |-> setl.db, rs |-> rs1, err |-> FALSE]
            ELSE IF depl.hit THEN [db |-> depl.db, rs |-> rs1, err |-> FALSE]
            ELSE [db |-> incl.db, rs |-> rs1, err |-> FALSE]

\* D5Parser.parse_line(self, line)
parse_line(d, rs, words) ==
    IF ~Qualifying(words) THEN [db |-> d, rs |-> rs, err |-> FALSE]
    ELSE LET rs1 == handle_rule_stack(rs, words)
             decl == parse_decl_line(d, words)
             setl == parse_set_line(d, words)
             depl == parse_dep_line(d, words)
             incl == parse_inc_line(d, words)
             call == parse_call_line(d, rs1, words)
         IN IF decl.hit THEN [db |-> decl.db, rs |-> rs1, err |-> FALSE]
            ELSE IF setl.hit THEN [db |-> setl.db, rs |-> rs1, err |-> FALSE]
            ELSE IF depl.hit THEN [db |-> depl.db, rs |-> rs1, err |-> FALSE]
            ELSE IF incl.hit THEN [db |-> incl.db, rs |-> rs1, err |-> FALSE]
            ELSE [db |-> call.db, rs |-> call.rs, err |-> call.err]

---------------------------------------------------------------------------
(* The D5 parser reading a log file line by line: SpecD5 *)

\* the markers of depth 1, 2, 3 and 4
Markers == {">>", ">>>>", ">>>>>>", ">>>>>>>>"}

\* the lines a log file is made of here: two rule declarations, invocations of
\* either rule and lines of no known shape at every depth, a dependency line
\* and a line that is not d5 output
LinesD5 ==
    {<<">>", "rule", "S">>, <<">>", "rule", "R">>,
     <<">>>>", "Depends", "a", ":", "b">>,
     <<"note", "S", "a">>}
    \cup {<<m, "S", "a">> : m \in Markers}
    \cup {<<m, "R", "b", ":", "a">> : m \in Markers}
    \cup {<<m, "foo", "a">> : m \in Markers}

\* parse_logfile has reset the stack and parse_line reads the next line
ParseLine(words) ==
    /\ Len(trace) < MaxLines
    /\ ~ret.err
    /\ LET r == parse_line(db, rule_stack, words)
       IN /\ db' = r.db
          /\ rule_stack' = r.rs
          /\ ret' = [NoRet EXCEPT !.op = "parse_line", !.err = r.err]
          /\ trace' = Append(trace,
                [line |-> words,
                 qualifying |-> Qualifying(words),
                 depth |-> IF Qualifying(words) THEN get_rule_depth(words[1]) ELSE 0,
                 stack |-> Len(r.rs),
                 call |-> IF Len(r.db.C) > Len(db.C) THEN Len(r.db.C) ELSE 0])
    /\ UNCHANGED <<log, fix_pc>>

NextD5 == \E words \in LinesD5 : ParseLine(words)

SpecD5 == Init /\ [][NextD5]_vars

---------------------------------------------------------------------------
(* Claims about the D5 parser (SpecD5) *)

\* lines i < j of the trace: both made a RuleCall, line j one level deeper than
\* line i, and every qualifying line between them deeper than line i
NestedCallLines(i, j) ==
    /\ i < j
    /\ trace[i].call # 0 /\ trace[j].call # 0
    /\ trace[j].depth = trace[i].depth + 1
    /\ \A k \in (i + 1)..(j - 1) :
          trace[k].qualifying => trace[k].depth > trace[i].depth

\* the call of line j was made by the call of line i
CalledBy(i, j) ==
    /\ db.C[trace[j].call].caller = trace[i].call
    /\ InList(db.C[trace[i].call].sub_calls, trace[j].call)

\* C7 as stated: when the parser reads an invocation line of a declared rule S
\* at decoded depth d and then, with no intervening qualifying line of depth
\* <= d, an invocation line of a declared rule R at depth d+1, the R call's
\* caller is the S call and the S call's sub_calls contains the R call.
C7_NestedCallGetsCaller ==
    \A i \in DOMAIN trace, j \in DOMAIN trace : NestedCallLines(i, j) => CalledBy(i, j)

\* C7 amended: the same, for an S line that left its frame at stack position d,
\* that is with d+1 frames on the stack once the S line was read (no depth was
\* skipped on the way down to S).
C7_NestedCallGetsCallerNoSkip ==
    \A i \in DOMAIN trace, j \in DOMAIN trace :
        (NestedCallLines(i, j) /\ trace[i].stack = trace[i].depth + 1) => CalledBy(i, j)

\* C7 witness: S read at depth 1, a line of no known shape at depth 2, then S
\* again at depth 2, whose call has the first S call as caller
C7_Witness ==
    /\ Len(trace) = 4
    /\ trace[2].line = <<">>", "S", "a">> /\ trace[2].stack = 2
    /\ trace[3].line = <<">>>>", "foo", "a">>
    /\ trace[4].line = <<">>>>", "S", "a">>
    /\ NestedCallLines(2, 4) /\ CalledBy(2, 4)

---------------------------------------------------------------------------
(* The query engine (query.py), as the specification describes it, over   *)
(* the Target heap T.  A result is [err, val]: err is the CyclicInclusion *)
(* condition, val the sequence of Targets.                                 *)

\* a sequence without its repeated elements, first occurrences kept
RECURSIVE unique(_)
unique(s) ==
    IF s = <<>> THEN <<>>
    ELSE IF InList(SubSeq(s, 1, Len(s) - 1), s[Len(s)])
         THEN unique(SubSeq(s, 1, Len(s) - 1))
         ELSE Append(unique(SubSeq(s, 1, Len(s) - 1)), s[Len(s)])

\* the concatenation of the first n sequences of a sequence of sequences
RECURSIVE chain(_, _)
chain(ss, n) == IF n = 0 THEN <<>> ELSE chain(ss, n - 1) \o ss[n]

\* a plausible slip in deps: a target met again while it is being unwound
\* contributes nothing and the failure is not raised
RECURSIVE deps_visiting_no_fail(_, _, _)
deps_visiting_no_fail(T, target, visiting) ==
    IF target \in visiting THEN [err |-> FALSE, val |-> <<>>]
    ELSE LET incs == T[target].incs
             sub == [i \in DOMAIN incs |->
                        deps_visiting_no_fail(T, incs[i], visiting \cup {target})]
         IN IF \E i \in DOMAIN incs : sub[i].err
            THEN [err |-> TRUE, val |-> <<>>]
            ELSE [err |-> FALSE,
                  val |-> unique(T[target].deps
                                 \o chain([i \in DOMAIN incs |-> sub[i].val], Len(incs)))]

\* deps(target) while the targets of visiting are being unwound
RECURSIVE deps_visiting(_, _, _)
deps_visiting(T, target, visiting) ==
    IF target \in visiting THEN [err |-> TRUE, val |-> <<>>]
    ELSE LET incs == T[target].incs
             sub == [i \in DOMAIN incs |->
                        deps_visiting(T, incs[i], visiting \cup {target})]
         IN IF \E i \in DOMAIN incs : sub[i].err
            THEN [err |-> TRUE, val |-> <<>>]
            ELSE [err |-> FALSE,
                  val |-> unique(T[target].deps
                                 \o chain([i \in DOMAIN incs |-> sub[i].val], Len(incs)))]

\* query.deps(target)
deps(T, target) == deps_visiting(T, target, {})

\* the depth-first expansion of the nodes of a level from its i-th node on
RECURSIVE df_from(_, _, _)
df_from(T, level, i) ==
    IF i > Len(level) THEN [err |-> FALSE, val |-> <<>>]
    ELSE LET d == deps(T, level[i])
             below == df_from(T, d.val, 1)
             rest == df_from(T, level, i + 1)
         IN IF d.err \/ below.err \/ rest.err
            THEN [err |-> TRUE, val |-> <<>>]
            ELSE [err |-> FALSE, val |-> <<level[i]>> \o below.val \o rest.val]

\* query.all_deps_df(target)
all_deps_df(T, target) ==
    LET d == deps(T, target)
    IN IF d.err THEN d ELSE df_from(T, d.val, 1)

\* the children of the nodes of a level, in order: deps(node) for each node
RECURSIVE bf_children(_, _, _)
bf_children(T, level, n) ==
    IF n = 0 THEN [err |-> FALSE, val |-> <<>>]
    ELSE LET front == bf_children(T, level, n - 1)
             d == deps(T, level[n])
         IN IF front.err \/ d.err THEN [err |-> TRUE, val |-> <<>>]
            ELSE [err |-> FALSE, val |-> front.val \o d.val]

\* the levels of the breadth-first expansion from a level on, until one is empty
RECURSIVE bf_levels(_, _)
bf_levels(T, level) ==
    IF level = <<>> THEN [err |-> FALSE, val |-> <<>>]
    ELSE LET c == bf_children(T, level, Len(level))
             rest == bf_levels(T, c.val)
         IN IF c.err \/ rest.err THEN [err |-> TRUE, val |-> <<>>]
            ELSE [err |-> FALSE, val |-> level \o rest.val]

\* query.all_deps_bf(target)
all_deps_bf(T, target) ==
    LET d == deps(T, target)
    IN IF d.err THEN d ELSE bf_levels(T, d.val)

\* max_depth=None, the default of dep_chains: no limit on the length of a chain
NoMaxDepth == 0

\* the chains that extend path, a chain under construction that ends at its
\* last node: the path itself when that node has no deps or the path has
\* max_depth entries, otherwise the chains through each of deps(node) in order
RECURSIVE chains_from(_, _, _)
chains_from(T, path, max_depth) ==
    LET d == deps(T, path[Len(path)])
        sub == [i \in DOMAIN d.val |-> chains_from(T, Append(path, d.val[i]), max_depth)]
    IN IF d.err THEN [err |-> TRUE, val |-> <<>>]
       ELSE IF d.val = <<>> \/ Len(path) = max_depth
            THEN [err |-> FALSE, val |-> <<path>>]
            ELSE IF \E i \in DOMAIN sub : sub[i].err
                 THEN [err |-> TRUE, val |-> <<>>]
                 ELSE [err |-> FALSE,
                       val |-> chain([i \in DOMAIN sub |-> sub[i].val], Len(sub))]

\* query.dep_chains(target, max_depth): the chains in the order the expansion
\* finds them; callers read the result as a set
dep_chains(T, target, max_depth) == chains_from(T, <<target>>, max_depth)

---------------------------------------------------------------------------
(* test/test_query.py: DependencyTest builds its fixture with get_target, *)
(* add_dependency and add_inclusion, and queries it: SpecQuery            *)

\* _deps and _incs as setUp walks them: one entry per add_dependency or
\* add_inclusion call
Fixture ==
    << [op |-> "dep", a |-> "a", b |-> "b"], [op |-> "dep", a |-> "a", b |-> "c"],
       [op |-> "dep", a |-> "b", b |-> "d"], [op |-> "dep", a |-> "b", b |-> "e"],
       [op |-> "dep", a |-> "c", b |-> "e"],
       [op |-> "dep", a |-> "d", b |-> "f"],
       [op |-> "dep", a |-> "e", b |-> "f"],
       [op |-> "dep", a |-> "p", b |-> "q"],
       [op |-> "dep", a |-> "q", b |-> "r"],
       [op |-> "dep", a |-> "x", b |-> "y"], [op |-> "dep", a |-> "x", b |-> "z"],
       [op |-> "dep", a |-> "y", b |-> "d"],
       [op |-> "inc", a |-> "y", b |-> "q"], [op |-> "inc", a |-> "y", b |-> "b"],
       [op |-> "inc", a |-> "z", b |-> "b"],
       [op |-> "inc", a |-> "r", b |-> "c"] >>

\* the names of the fixture's targets
FixtureNames == {"a", "b", "c", "d", "e", "f", "p", "q", "r", "x", "y", "z"}

\* DependencyTest.setUp: the next call of the two loops, on targets from
\* _get_target
FixtureStep ==
    /\ fix_pc < Len(Fixture)
    /\ LET e == Fixture[fix_pc + 1]
           target == get_target(db, e.a)
           other == get_target(target.db, e.b)
       IN db' = IF e.op = "dep"
                THEN add_dependency(other.db, target.target, other.target)
                ELSE add_inclusion(other.db, target.target, other.target)
    /\ fix_pc' = fix_pc + 1
    /\ ret' = NoRet
    /\ UNCHANGED <<log, rule_stack, trace>>

\* what a query returned, for ret
QueryRet(op, n, r) == [NoRet EXCEPT !.op = op, !.name = n, !.val = r.val, !.err = r.err]

\* list(query.deps(target)) on a target of the database
QueryDeps(n) ==
    /\ DictHas(db.targets, n)
    /\ ret' = QueryRet("deps", n, deps(db.T, DictGet(db.targets, n)))
    /\ UNCHANGED <<db, log, rule_stack, trace, fix_pc>>

\* list(query.all_deps_df(target)) on a target of the database
QueryAllDepsDf(n) ==
    /\ DictHas(db.targets, n)
    /\ ret' = QueryRet("all_deps_df", n, all_deps_df(db.T, DictGet(db.targets, n)))
    /\ UNCHANGED <<db, log, rule_stack, trace, fix_pc>>

\* list(query.all_deps_bf(target)) on a target of the database
QueryAllDepsBf(n) ==
    /\ DictHas(db.targets, n)
    /\ ret' = QueryRet("all_deps_bf", n, all_deps_bf(db.T, DictGet(db.targets, n)))
    /\ UNCHANGED <<db, log, rule_stack, trace, fix_pc>>

\* the largest max_depth a caller passes
MaxDepthArg == 5

\* the max_depth arguments callers pass
DepthArgs == {NoMaxDepth} \cup 1..MaxDepthArg

\* query.dep_chains(target, max_depth=m) on a target of the database
QueryDepChains(n, m) ==
    /\ DictHas(db.targets, n)
    /\ LET r == dep_chains(db.T, DictGet(db.targets, n), m)
       IN ret' = [QueryRet("dep_chains", n, r) EXCEPT !.arg = m]
    /\ UNCHANGED <<db, log, rule_stack, trace, fix_pc>>

NextQuery ==
    \/ FixtureStep
    \/ \E n \in FixtureNames : QueryDeps(n)
    \/ \E n \in FixtureNames : QueryAllDepsDf(n)
    \/ \E n \in FixtureNames : QueryAllDepsBf(n)
    \/ \E n \in FixtureNames, m \in DepthArgs : QueryDepChains(n, m)

SpecQuery == Init /\ [][NextQuery]_vars

---------------------------------------------------------------------------
(* Claims about the queries (SpecQuery) *)

\* the names of a sequence of Targets
NamesOf(ts) == [i \in DOMAIN ts |-> db.T[ts[i]].name]

\* the fixture is complete and the query op on the target called n has returned
Returned(op, n) == fix_pc = Len(Fixture) /\ ret.op = op /\ ret.name = n

\* deps(inc) for each inc of the first n inclusions of a target, one after the
\* other
RECURSIVE DepsOfIncs(_, _)
DepsOfIncs(t, n) ==
    IF n = 0 THEN <<>>
    ELSE DepsOfIncs(t, n - 1) \o deps(db.T, db.T[t].incs[n]).val

\* C8: deps(target) equals target.deps followed, for each inc in target.incs in
\* order, by the recursively computed deps(inc), with duplicates removed keeping
\* the first occurrence; on the test fixture deps(a) = [b,c], deps(z) = [d,e]
\* and deps(y) = [d,r,e].
C8_DepsUnwindsInclusions ==
    /\ \A t \in TargetIds :
          /\ ~deps(db.T, t).err
          /\ deps(db.T, t).val =
                FirstSeen(db.T[t].deps \o DepsOfIncs(t, Len(db.T[t].incs)))
    /\ Returned("deps", "a") => NamesOf(ret.val) = <<"b", "c">>
    /\ Returned("deps", "z") => NamesOf(ret.val) = <<"d", "e">>
    /\ Returned("deps", "y") => NamesOf(ret.val) = <<"d", "r", "e">>

\* C8 witness: on the complete fixture deps(y) has returned d, r, e: y depends
\* on d and includes q and b, and the d of deps(b) is the dropped duplicate
C8_Witness ==
    /\ Returned("deps", "y") /\ ~ret.err
    /\ NamesOf(ret.val) = <<"d", "r", "e">>
    /\ NamesOf(db.T[DictGet(db.targets, "y")].incs) = <<"q", "b">>

\* a node followed by the subtrees of its deps(node), in order
RECURSIVE Subtree(_)
Subtree(t) ==
    LET kids == deps(db.T, t).val
        sub == [i \in DOMAIN kids |-> Subtree(kids[i])]
    IN <<t>> \o chain(sub, Len(kids))

\* C9: all_deps_df(target) is the pre-order depth-first expansion with
\* deps(node) as child generator, each node immediately followed by its whole
\* subtree, without deduplication; on the test fixture all_deps_df(x) is
\* exactly y,d,f,r,e,f,e,f,z,d,f,e,f.
C9_AllDepsDepthFirst ==
    /\ \A t \in TargetIds :
          /\ ~all_deps_df(db.T, t).err
          /\ <<t>> \o all_deps_df(db.T, t).val = Subtree(t)
    /\ Returned("all_deps_df", "x") =>
          NamesOf(ret.val) =
              <<"y", "d", "f", "r", "e", "f", "e", "f", "z", "d", "f", "e", "f">>

\* C9 witness: on the complete fixture all_deps_df(x) has returned its thirteen
\* targets, f among them more than once
C9_Witness ==
    /\ Returned("all_deps_df", "x") /\ ~ret.err
    /\ Len(ret.val) = 13
    /\ Count(NamesOf(ret.val), "f") = 5

\* level k of the expansion of a target: level 0 is deps(target), the next level
\* is deps(node) for every node of the level, in order
RECURSIVE Level(_, _)
Level(t, k) ==
    IF k = 0 THEN deps(db.T, t).val
    ELSE LET prev == Level(t, k - 1)
         IN chain([i \in DOMAIN prev |-> deps(db.T, prev[i]).val], Len(prev))

\* the number of levels of a target that are not empty
RECURSIVE Height(_, _)
Height(t, k) == IF Level(t, k) = <<>> THEN k ELSE Height(t, k + 1)

\* C10: all_deps_bf(target) is the level-by-level expansion starting from
\* deps(target), each level the concatenation of deps(node) for every node of
\* the previous level in order, without deduplication, and it ends when a level
\* generates no children; on the test fixture all_deps_bf(x) is exactly
\* y,z,d,r,e,d,e,f,e,f,f,f,f.
C10_AllDepsBreadthFirst ==
    /\ \A t \in TargetIds :
          LET h == Height(t, 0)
          IN /\ ~all_deps_bf(db.T, t).err
             /\ all_deps_bf(db.T, t).val = chain([k \in 1..h |-> Level(t, k - 1)], h)
    /\ Returned("all_deps_bf", "x") =>
          NamesOf(ret.val) =
              <<"y", "z", "d", "r", "e", "d", "e", "f", "e", "f", "f", "f", "f">>

\* C10 witness: on the complete fixture all_deps_bf(x) has returned four levels,
\* the first y, z and the last a single f
C10_Witness ==
    /\ Returned("all_deps_bf", "x") /\ ~ret.err
    /\ Height(DictGet(db.targets, "x"), 0) = 4
    /\ NamesOf(SubSeq(ret.val, 1, 2)) = <<"y", "z">>
    /\ Len(ret.val) = 13 /\ NamesOf(ret.val)[13] = "f"


\* the paths of n entries that start at t and follow deps(node) at each step
RECURSIVE PathsOfLen(_, _)
PathsOfLen(t, n) ==
    IF n = 1 THEN {<<t>>}
    ELSE UNION {{Append(p, k) : k \in Range(deps(db.T, p[n - 1]).val)} :
                p \in PathsOfLen(t, n - 1)}

\* the paths from t that end at a node without deps or have m entries (m =
\* NoMaxDepth: the former only); no path of the fixture has more entries than
\* there are targets
ChainSet(t, m) ==
    UNION {{p \in PathsOfLen(t, n) :
               deps(db.T, p[n]).val = <<>> \/ n = m} :
           n \in 1..(IF m = NoMaxDepth THEN Cardinality(TargetIds) ELSE m)}

\* a set of chains, as sequences of names
ChainNames(cs) == {NamesOf(c) : c \in cs}

\* C11: dep_chains(target, max_depth) returns, as a set, exactly the paths that
\* start with target and follow deps(node) at each step, each ending at a node
\* whose deps(node) is empty or, truncated, when it has max_depth entries; on
\* the fixture dep_chains(x, 2) is {[x,y],[x,z]}, max_depth 3 gives the five
\* chains of three entries and no max_depth the five full chains ending in f.
C11_DepChainsAreMaximalPaths ==
    /\ \A t \in TargetIds, m \in DepthArgs :
          /\ ~dep_chains(db.T, t, m).err
          /\ Range(dep_chains(db.T, t, m).val) = ChainSet(t, m)
    /\ Returned("dep_chains", "x") /\ ret.arg = 2 =>
          ChainNames(Range(ret.val)) = {<<"x", "y">>, <<"x", "z">>}
    /\ Returned("dep_chains", "x") /\ ret.arg = 3 =>
          ChainNames(Range(ret.val)) =
              {<<"x", "y", "d">>, <<"x", "y", "r">>, <<"x", "y", "e">>,
               <<"x", "z", "d">>, <<"x", "z", "e">>}
    /\ Returned("dep_chains", "x") /\ ret.arg = NoMaxDepth =>
          ChainNames(Range(ret.val)) =
              {<<"x", "y", "d", "f">>, <<"x", "y", "r", "e", "f">>,
               <<"x", "y", "e", "f">>, <<"x", "z", "d", "f">>,
               <<"x", "z", "e", "f">>}

\* C11 witness: on the complete fixture dep_chains(x, max_depth=3) has returned
\* five chains of three entries, each cut short of the f it would reach
C11_Witness ==
    /\ Returned("dep_chains", "x") /\ ret.arg = 3 /\ ~ret.err
    /\ Cardinality(Range(ret.val)) = 5
    /\ \A c \in Range(ret.val) :
          Len(c) = 3 /\ deps(db.T, c[3]).val # <<>>

---------------------------------------------------------------------------
(* parsers/_d5.py: a whole log file *)

\* the loop of parse_logfile from line i on, r being what parse_line made of
\* the line before ([db, rs, err]); an AssertionError raised under parse_line
\* leaves the loop
RECURSIVE parse_lines(_, _, _)
parse_lines(r, logfile, i) ==
    IF i > Len(logfile) \/ r.err THEN r
    ELSE parse_lines(parse_line(r.db, r.rs, logfile[i]), logfile, i + 1)

\* D5Parser.parse_logfile(self, filename): the stack is reset, then every line
\* of the file goes through parse_line
parse_logfile(d, logfile) ==
    parse_lines([db |-> d, rs |-> <<BaseFrame>>, err |-> FALSE], logfile, 1)

---------------------------------------------------------------------------
(* parsers/__init__.py: parse, the dispatcher.  A result of the resolution  *)
(* is [run, out, err]: the classes of parsers_to_run, the lines printed and *)
(* whether an exception left the function.                                  *)

\* parser_clses
parser_clses ==
    [k \in {"d", "c", "3", "5"} |->
        CASE k = "d" -> "DDParser" [] k = "c" -> "DCParser"
          [] k = "3" -> "DMParser" [] k = "5" -> "D5Parser"]

\* str.isdigit() on the option strings used here: true of the decimal digits
\* and of the superscript two
isdigit(t) == t \in {"1", "2", "3", "4", "5", "6", "7", "8", "9", "²"}

\* str(num) for the numbers of the range loop
str(num) ==
    CASE num = 2 -> "2" [] num = 3 -> "3" [] num = 4 -> "4" [] num = 5 -> "5"
      [] num = 6 -> "6" [] num = 7 -> "7" [] num = 8 -> "8" [] num = 9 -> "9"

\* int(t) on a string that isdigit() accepts: ValueError on the superscript two,
\* which is a digit and no decimal
int(t) ==
    IF \E n \in 2..9 : str(n) = t
    THEN [err |-> FALSE, val |-> CHOOSE n \in 2..9 : str(n) = t]
    ELSE IF t = "1" THEN [err |-> FALSE, val |-> 1]
         ELSE [err |-> TRUE, val |-> 0]

\* print("No parser exists for option {}".format(...)): the line printed, the
\* formatted option kept as its pieces
NoParserLine(opt) == [msg |-> "No parser exists for option", opt |-> opt]

\* print("Running {}".format(parser_cls.__name__))
RunningLine(cls) == [msg |-> "Running", opt |-> <<cls>>]

\* list.remove(x): the list without the first occurrence of x
list_remove(s, x) ==
    LET i == IndexOf(s, x)
    IN SubSeq(s, 1, i - 1) \o SubSeq(s, i + 1, Len(s))

\* parse, the 'm' option: "+" and "3" are appended and the first 'm' removed
rewrite_m(parsers) ==
    IF InList(parsers, "m")
    THEN list_remove(parsers \o <<"+", "3">>, "m")
    ELSE parsers

\* parse, "for num in range(2,int(parsers[i])+1)" from num on
RECURSIVE range_loop(_, _, _)
range_loop(n, num, r) ==
    IF num > n THEN r
    ELSE IF str(num) \in DOMAIN parser_clses
         THEN range_loop(n, num + 1,
                         [r EXCEPT !.run = @ \cup {parser_clses[str(num)]}])
         ELSE range_loop(n, num + 1,
                         [r EXCEPT !.out = Append(@, NoParserLine(<<"+", str(num)>>))])

\* parse, the body of "for i in range(len(parsers))" for one option (Python
\* counts i from 0)
option(parsers, i, r) ==
    IF isdigit(parsers[i])
    THEN IF i > 1 /\ parsers[i - 1] = "+"
         THEN IF parsers[i] \in DOMAIN parser_clses
              THEN [r EXCEPT !.run = @ \cup {parser_clses[parsers[i]]}]
              ELSE [r EXCEPT !.out = Append(@, NoParserLine(<<"+", parsers[i]>>))]
         ELSE IF int(parsers[i]).err THEN [r EXCEPT !.err = TRUE]
              ELSE range_loop(int(parsers[i]).val, 2, r)
    ELSE IF parsers[i] \in DOMAIN parser_clses
         THEN [r EXCEPT !.run = @ \cup {parser_clses[parsers[i]]}]
         ELSE IF parsers[i] # "+"
              THEN [r EXCEPT !.out = Append(@, NoParserLine(<<parsers[i]>>))]
              ELSE r

\* parse, "for i in range(len(parsers))" from option i on; a ValueError leaves
\* the loop
RECURSIVE option_loop(_, _, _)
option_loop(parsers, i, r) ==
    IF i > Len(parsers) \/ r.err THEN r
    ELSE option_loop(parsers, i + 1, option(parsers, i, r))

\* parse up to the loop that runs the parsers: parsers_to_run, the lines
\* printed and whether int() raised
parsers_to_run(parsers) ==
    option_loop(rewrite_m(parsers), 1, [run |-> {}, out |-> <<>>, err |-> FALSE])

\* DDParser, DMParser, DCParser: parse_logfile of a sibling dialect, which
\* recognizes no line of a log made of d5 lines only
sibling_parse_logfile(d, logfile) == [db |-> d, err |-> FALSE]

\* parser_cls(db).parse_logfile(logfile) for a class of the registry
run_parser(cls, d, logfile) ==
    IF cls = "D5Parser" THEN parse_logfile(d, logfile)
    ELSE sibling_parse_logfile(d, logfile)

\* one round of "for parser_cls in parsers_to_run": the line printed, then p,
\* what the parser of the class made of the database
run_one(r, cls, p) ==
    [db |-> p.db, out |-> Append(r.out, RunningLine(cls)), err |-> p.err]

\* parse, "for parser_cls in parsers_to_run" in the order the set yields its
\* classes, from the i-th on; r is [db, out, err]
RECURSIVE run_loop(_, _, _, _)
run_loop(logfile, order, i, r) ==
    IF i > Len(order) \/ r.err THEN r
    ELSE run_loop(logfile, order, i + 1,
                  run_one(r, order[i], run_parser(order[i], r.db, logfile)))

\* the state of parse between its two loops: the database untouched, the
\* lines printed so far and whether int() raised
resolved(d, sel) == [db |-> d, out |-> sel.out, err |-> sel.err]

\* parsers.parse(db, logfile, parsers), the set parsers_to_run iterated in the
\* given order; the run loop is not entered after a ValueError
parse(d, logfile, parsers, order) ==
    run_loop(logfile, order, 1, resolved(d, parsers_to_run(parsers)))

---------------------------------------------------------------------------
(* The dispatcher called once with a list of options: SpecDispatch *)

\* the longest list of options
MaxTokens == 3

\* the options callers pass: the keys of the registry, the alias 'm', the
\* marker '+', digits with and without a parser, a letter without a parser and
\* a digit that is no decimal
Tokens == {"d", "c", "m", "+", "3", "4", "5", "7", "x", "²"}

\* the lists of options
TokenLists == UNION {[1..n -> Tokens] : n \in 0..MaxTokens}

\* the log file the parsers read: a declaration, an invocation and a
\* dependency line of d5 output
DispatchLog ==
    << <<">>", "rule", "S">>, <<">>", "S", "a">>, <<">>>>", "Depends", "a", ":", "b">> >>

\* the orders in which iterating a set can yield its members
Orders(S) == {o \in [1..Cardinality(S) -> S] : Range(o) = S}

\* the caller has chosen the options to pass
InitDispatch ==
    /\ db = NewDatabase
    /\ \E ts \in TokenLists : ret = [NoRet EXCEPT !.pat = ts]
    /\ log = <<>>
    /\ rule_stack = <<BaseFrame>>
    /\ trace = <<>>
    /\ fix_pc = 0

\* parsers.parse(db, logfile, parsers) with the chosen options; each selected
\* class makes a parser of its own, so the stack of no other parser changes
Parse ==
    /\ ret.op = "none"
    /\ \E order \in Orders(parsers_to_run(ret.pat).run) :
          LET r == parse(db, DispatchLog, ret.pat, order)
          IN /\ db' = r.db
             /\ ret' = [NoRet EXCEPT !.op = "parse", !.pat = ret.pat,
                                     !.val = r.out, !.err = r.err]
    /\ UNCHANGED <<log, rule_stack, trace, fix_pc>>

NextDispatch == Parse

SpecDispatch == InitDispatch /\ [][NextDispatch]_vars

---------------------------------------------------------------------------
(* Claims about the dispatcher (SpecDispatch) *)

\* the classes whose parser the last parse has run
Ran == {l.opt[1] : l \in {x \in Range(ret.val) : x.msg = "Running"}}

\* the diagnostics the last parse has printed
Diagnostics == SelectSeq(ret.val, LAMBDA l : l.msg = "No parser exists for option")

\* option i of the list ts is a decimal number
IsNumber(ts, i) == isdigit(ts[i]) /\ ~int(ts[i]).err

\* option i of the list ts comes right after a '+'
AfterPlus(ts, i) == i > 1 /\ ts[i - 1] = "+"

\* the numeric levels that have a parser, each with its class
LevelClass == [n \in {3, 5} |-> parser_clses[str(n)]]

\* the classes option i of the list ts stands for: the parsers of the levels up
\* to a bare number, the parser of the level after a '+', the class of a key of
\* the registry, the level 3 parser for the alias 'm'
ClassesOf(ts, i) ==
    IF IsNumber(ts, i)
    THEN IF AfterPlus(ts, i)
         THEN {LevelClass[n] : n \in {k \in DOMAIN LevelClass : k = int(ts[i]).val}}
         ELSE {LevelClass[n] : n \in {k \in DOMAIN LevelClass : k <= int(ts[i]).val}}
    ELSE IF ts[i] \in DOMAIN parser_clses THEN {parser_clses[ts[i]]}
         ELSE IF ts[i] = "m" THEN {LevelClass[3]}
              ELSE {}

\* C12 as stated: when the dispatcher completes, a digit token n not immediately preceded
\* by '+' selects every registered parser whose numeric level is <= n, a
\* digit token immediately preceded by '+' selects exactly the parser
\* registered for that level and no other: the parsers run are those the
\* tokens of the list stand for, taken together.
C12_DigitSelectsRangeOrExact ==
    ret.op = "parse" /\ ~ret.err =>
        /\ Ran = UNION {ClassesOf(ret.pat, i) : i \in DOMAIN ret.pat}
        /\ \A i \in DOMAIN ret.pat :
              IsNumber(ret.pat, i) /\ ~AfterPlus(ret.pat, i) =>
                  \A k \in DOMAIN LevelClass :
                      k <= int(ret.pat[i]).val => LevelClass[k] \in Ran
        /\ ret.pat \in {<<"+", t>> : t \in Tokens} /\ IsNumber(ret.pat, 2) =>
              Ran = {LevelClass[k] : k \in {j \in DOMAIN LevelClass :
                                                 str(j) = ret.pat[2]}}


\* option i of the list ts has no parser and no meaning to the dispatcher
Unrecognized(ts, i) ==
    /\ ~isdigit(ts[i])
    /\ ts[i] \notin DOMAIN parser_clses \cup {"m", "+"}

\* option i of the list ts is a '+' that no digit follows immediately
DanglingPlus(ts, i) ==
    ts[i] = "+" /\ ~(i < Len(ts) /\ isdigit(ts[i + 1]))

\* C13 as stated: for every token list the run is never aborted, each
\* unrecognized token and each '+' not consumed by an immediately following
\* digit token produces a diagnostic, such tokens select no parser, and all
\* parsers selected by the recognized tokens are still run.
C13_UnknownTokensReportedNeverFatal ==
    ret.op = "parse" =>
        /\ ~ret.err
        /\ \A t \in Tokens :
              Count([i \in DOMAIN Diagnostics |-> Diagnostics[i].opt], <<t>>) >=
                  Cardinality({i \in DOMAIN ret.pat :
                                  /\ ret.pat[i] = t
                                  /\ Unrecognized(ret.pat, i) \/ DanglingPlus(ret.pat, i)})
        /\ Ran = UNION {ClassesOf(ret.pat, i) : i \in DOMAIN ret.pat}

\* the list ts with its first 'm' replaced, at its position, by '+', '3'
ReplaceAlias(ts) ==
    LET i == IndexOf(ts, "m")
    IN SubSeq(ts, 1, i - 1) \o <<"+", "3">> \o SubSeq(ts, i + 1, Len(ts))

\* C14 as stated: for every token list containing the alias 'm' the dispatcher
\* resolves the same parser set as for the list in which that 'm' is replaced,
\* at its position, by '+', '3'.
C14_AliasIsPlusThreeInPlace ==
    ret.op = "parse" /\ InList(ret.pat, "m") =>
        LET q == parsers_to_run(ReplaceAlias(ret.pat))
        IN /\ q.err = ret.err
           /\ ~ret.err => Ran = q.run

---------------------------------------------------------------------------
(* The rules and rule calls of the database driven directly: SpecRules *)

\* the most add_call and set_caller calls of a behaviour
MaxRuleOps == 4

\* the rule names callers use
RuleNames == {"S", "R"}

\* the argument lists callers pass to add_call: one target, an empty first
\* group, and four groups with a target named twice in one group and in
\* several groups
ArgLists ==
    {<<"a">>, <<":", "b">>, <<"a", ":", "a", "b", "a", ":", "b", ":", "a">>}

\* the Rule and RuleCall objects created so far
RuleIds == DOMAIN db.R
CallIds == DOMAIN db.C

\* db.get_rule(name)
GetRule(n) ==
    /\ ret' = [NoRet EXCEPT !.op = "get_rule", !.name = n,
                            !.val = IF get_rule(db, n) = 0 THEN <<>>
                                    ELSE <<get_rule(db, n)>>]
    /\ UNCHANGED <<db, log, rule_stack, trace, fix_pc>>

\* rule.add_call(db, arg_list) on a rule of the database
AddCall(rule, arg_list) ==
    /\ Len(log) < MaxRuleOps
    /\ LET c == add_call(db, rule, arg_list)
       IN /\ db' = c.db
          /\ ret' = [NoRet EXCEPT !.op = "add_call", !.arg = rule, !.val = <<c.call>>]
          /\ log' = Append(log, [op |-> "add_call", rule |-> rule, call |-> c.call,
                                 arg_list |-> arg_list])
    /\ UNCHANGED <<rule_stack, trace, fix_pc>>

\* call.set_caller(caller) on two rule calls of the database; err is the
\* AssertionError
SetCaller(call, caller) ==
    /\ Len(log) < MaxRuleOps
    /\ LET r == set_caller(db, call, caller)
       IN /\ db' = r.db
          /\ ret' = [NoRet EXCEPT !.op = "set_caller", !.arg = call, !.val = <<caller>>,
                                  !.err = r.err]
          /\ log' = Append(log, [op |-> "set_caller", call |-> call, caller |-> caller,
                                 before |-> db.C[call].caller, err |-> r.err])
    /\ UNCHANGED <<rule_stack, trace, fix_pc>>

NextRules ==
    \/ \E n \in RuleNames : DeclareRule(n)
    \/ \E n \in RuleNames : GetRule(n)
    \/ \E rule \in RuleIds, arg_list \in ArgLists : AddCall(rule, arg_list)
    \/ \E call \in CallIds, caller \in CallIds : SetCaller(call, caller)

SpecRules == Init /\ [][NextRules]_vars

---------------------------------------------------------------------------
(* Claims about rules and rule calls (SpecRules) *)

\* C15: after any sequence of add_call operations on a Rule, the i-th RuleCall
\* in rule.calls (in call order) has id_number == i, so id_numbers start at 0,
\* increase by one per call and are unique within the rule.
C15_IdNumberIsPositionInRule ==
    \A r \in RuleIds :
        /\ \A i \in DOMAIN db.R[r].calls :
              /\ db.C[db.R[r].calls[i]].id_number = i - 1
              /\ db.C[db.R[r].calls[i]].rule = r
        /\ \A i \in DOMAIN db.R[r].calls, j \in DOMAIN db.R[r].calls :
              db.C[db.R[r].calls[i]].id_number = db.C[db.R[r].calls[j]].id_number
                  => i = j
        /\ \A i \in DOMAIN log :
              log[i].op = "add_call" /\ log[i].rule = r =>
                  db.R[r].calls[Cardinality({j \in 1..i : log[j].op = "add_call"
                                                          /\ log[j].rule = r})]
                      = log[i].call

\* C15 witness: two rules have calls, made in turn, and the second call of one
\* of them has id_number 1 though it is the third call of the database
C15_Witness ==
    \E r \in RuleIds, q \in RuleIds :
        /\ r # q
        /\ Len(db.R[r].calls) = 2 /\ Len(db.R[q].calls) = 1
        /\ db.R[r].calls[2] = 3
        /\ db.C[3].id_number = 1

\* the number of ':' before element i of an argument list
ColonsBefore(al, i) == Cardinality({j \in 1..(i - 1) : al[j] = ":"})

\* the names of group g of an argument list (the first group is group 0): its
\* elements between the g-th ':' and the next, in order
GroupOf(al, g) ==
    LET at == [i \in DOMAIN al |-> [i |-> i, v |-> al[i]]]
        sel == SelectSeq(at, LAMBDA p : p.v # ":" /\ ColonsBefore(al, p.i) = g)
    IN [k \in DOMAIN sel |-> sel[k].v]

\* the role tag of the targets of group g
RoleOf(g) == IF g = 0 THEN "target" ELSE IF g = 1 THEN "source" ELSE "other"

\* the role tags
Roles == {"target", "source", "other"}

\* rule_calls[role] of the Target t of the heap T, empty while the role is no
\* key of the mapping or the Target does not exist
RoleCalls(T, t, role) ==
    IF t \in DOMAIN T /\ DictHas(T[t].rule_calls, role)
    THEN DictGet(T[t].rule_calls, role)
    ELSE <<>>

\* how often the name occurs in the groups of the role in an argument list
Occurrences(al, name, role) ==
    Cardinality({i \in DOMAIN al : al[i] = name /\ RoleOf(ColonsBefore(al, i)) = role})

\* what constructing the RuleCall c from the argument list al does
RuleCallEffect(c, al) ==
    /\ c \notin DOMAIN db.C
    /\ Len(db'.C[c].args) = Count(al, ":") + 1
    /\ \A g \in 0..Count(al, ":") :
          LET group == db'.C[c].args[g + 1]
          IN /\ [k \in DOMAIN group |-> db'.T[group[k]].name] = GroupOf(al, g)
             /\ \A k \in DOMAIN group :
                   DictGet(db'.targets, db'.T[group[k]].name) = group[k]
    /\ \A t \in DOMAIN db'.T, role \in Roles :
          RoleCalls(db'.T, t, role) =
              RoleCalls(db.T, t, role)
                  \o [k \in 1..Occurrences(al, db'.T[t].name, role) |-> c]

\* C16: constructing a RuleCall from an argument token list splits it at ':'
\* tokens into (number of ':' tokens + 1) ordered groups of canonical store
\* Targets, and every occurrence of a target in group 0 appends the call to
\* that target's rule_calls['target'], in group 1 to rule_calls['source'] and
\* in any group >= 2 to rule_calls['other'], at construction time.
C16_RuleCallGroupsAndRoles ==
    [][Len(log') = Len(log) + 1 /\ log'[Len(log')].op = "add_call"
           => RuleCallEffect(log'[Len(log')].call, log'[Len(log')].arg_list)]_vars

\* C16 witness: a call made from a : a b a : b : a has four groups; it stands
\* twice under 'source' and once under 'target' and 'other' of a, which had a
\* call under 'target' before, and once under 'source' and 'other' of b
C16_Witness ==
    \E i \in DOMAIN log :
        /\ log[i].op = "add_call"
        /\ log[i].arg_list = <<"a", ":", "a", "b", "a", ":", "b", ":", "a">>
        /\ LET c == log[i].call
               a == DictGet(db.targets, "a")
               b == DictGet(db.targets, "b")
           IN /\ Len(db.C[c].args) = 4
              /\ RoleCalls(db.T, a, "target") = <<1, c>> /\ c # 1
              /\ RoleCalls(db.T, a, "source") = <<c, c>>
              /\ RoleCalls(db.T, a, "other") = <<c>>
              /\ RoleCalls(db.T, b, "source") = <<c>>
              /\ RoleCalls(db.T, b, "other") = <<c>>

\* C17: set_caller succeeds on a RuleCall whose caller is unset and records the
\* given caller; a set_caller on a RuleCall whose caller is already set fails
\* with the fatal assertion and leaves the recorded caller unchanged.
C17_SetCallerOnceOnly ==
    [][Len(log') = Len(log) + 1 /\ log'[Len(log')].op = "set_caller" =>
           LET e == log'[Len(log')]
           IN IF db.C[e.call].caller = 0
              THEN /\ ~ret'.err
                   /\ db'.C[e.call].caller = e.caller
                   /\ \A c \in CallIds \ {e.call} : db'.C[c] = db.C[c]
              ELSE /\ ret'.err
                   /\ db'.C[e.call].caller = db.C[e.call].caller
                   /\ db' = db]_vars

\* C17 witness: a set_caller has failed on a call whose caller was set by an
\* earlier set_caller that named another caller, and the first caller is kept
C17_Witness ==
    \E i \in DOMAIN log, j \in DOMAIN log :
        /\ i < j
        /\ log[i].op = "set_caller" /\ ~log[i].err
        /\ log[j].op = "set_caller" /\ log[j].err
        /\ log[j].call = log[i].call /\ log[j].caller # log[i].caller
        /\ db.C[log[i].call].caller = log[i].caller
        /\ ret.op = "set_caller" /\ ret.err

\* C18: get_rule(name) never changes the store: it returns the registered Rule
\* when name was declared and absent (None) otherwise, and the set of rules and
\* targets is the same before and after the call.
C18_GetRuleReadsOnly ==
    [][ret'.op = "get_rule" =>
           /\ db' = db
           /\ IF \E r \in RuleIds : db.R[r].name = ret'.name
              THEN /\ Len(ret'.val) = 1
                   /\ ret'.val[1] \in RuleIds
                   /\ db.R[ret'.val[1]].name = ret'.name
                   /\ DictGet(db.rules, ret'.name) = ret'.val[1]
              ELSE ret'.val = <<>>]_vars

\* C18 witness: with two rules declared and a call made, get_rule has returned
\* the rule declared second
C18_Witness ==
    /\ ret.op = "get_rule"
    /\ Len(db.rules) = 2 /\ CallIds # {}
    /\ ret.val = <<2>> /\ db.R[2].name = ret.name

\* C19: declare_rule is idempotent: the first declare_rule(name) registers a
\* new Rule with no calls; every later declare_rule(name) returns that same
\* Rule instance with its recorded calls intact and leaves the number and
\* insertion order of rules unchanged.
C19_DeclareRuleIdempotent ==
    [][ret'.op = "declare_rule" =>
           IF DictHas(db.rules, ret'.name)
           THEN /\ ret'.val = <<DictGet(db.rules, ret'.name)>>
                /\ db'.R = db.R
                /\ db'.rules = db.rules
                /\ db' = db
           ELSE /\ ret'.val[1] \notin RuleIds
                /\ db'.R = Append(db.R, [name |-> ret'.name, calls |-> <<>>])
                /\ db'.rules = Append(db.rules, [k |-> ret'.name, v |-> ret'.val[1]])]_vars

\* C19 witness: declare_rule has returned, for a name declared before, the Rule
\* declared first, which has two calls by now, and another rule was declared
\* after it
C19_Witness ==
    /\ ret.op = "declare_rule"
    /\ ret.val = <<1>>
    /\ db.R[1].name = ret.name
    /\ Len(db.R[1].calls) = 2
    /\ Len(db.rules) = 2

---------------------------------------------------------------------------
(* One D5 parser reading the same log file several times into the same *)
(* database: SpecRerun                                                 *)

\* the most parse_logfile calls of a behaviour
MaxRuns == 2

\* the lines of the log files read here: a declaration, invocations at depth
\* 1 and 2, a dependency, an inclusion and a variable line, a line of no
\* known shape and a line that is not d5 output
LinesRerun ==
    {<<">>", "rule", "S">>, <<">>", "S", "a">>, <<">>>>", "S", "b", ":", "a">>,
     <<">>", "Depends", "a", ":", "b">>, <<">>", "Includes", "b", ":", "c">>,
     <<">>", "set", "x", "on", "a", "=", "v">>, <<">>", "foo", "a">>,
     <<"note", "S", "a">>}

\* the log files of at most MaxLines lines
LogFiles == UNION {[1..n -> LinesRerun] : n \in 0..MaxLines}

\* a parser has been made for an empty database and a log file is there; log
\* holds the lines of the file
InitRerun ==
    /\ db = NewDatabase
    /\ ret = NoRet
    /\ log \in LogFiles
    /\ rule_stack = <<BaseFrame>>
    /\ trace = <<>>
    /\ fix_pc = 0

\* parser.parse_logfile(filename) on the file; ret.arg counts the runs
ParseLogfile ==
    /\ ret.arg < MaxRuns
    /\ ~ret.err
    /\ LET r == parse_logfile(db, log)
       IN /\ db' = r.db
          /\ rule_stack' = r.rs
          /\ ret' = [NoRet EXCEPT !.op = "parse_logfile", !.arg = ret.arg + 1,
                                  !.err = r.err]
    /\ UNCHANGED <<log, trace, fix_pc>>

NextRerun == ParseLogfile

SpecRerun == InitRerun /\ [][NextRerun]_vars

---------------------------------------------------------------------------
(* Claims about reading a log file again (SpecRerun) *)

\* the targets of a database and the edges of each
Graph(d) ==
    [targets |-> d.targets,
     edges |-> [t \in DOMAIN d.T |->
                   [deps |-> d.T[t].deps, deps_rev |-> d.T[t].deps_rev,
                    incs |-> d.T[t].incs, incs_rev |-> d.T[t].incs_rev]]]

\* C20 as stated: running the D5 parser's parse_logfile a second time over the
\* same lines against the same store leaves the set of targets and every
\* target's deps, deps_rev, incs and incs_rev exactly as they were after the
\* first run.
C20_RerunLeavesGraph ==
    [][ret.op = "parse_logfile" /\ ret'.op = "parse_logfile" /\ ret'.arg = ret.arg + 1
           => Graph(db') = Graph(db)]_vars

\* line k of the lines is a declaration line of the rule called n
DeclaresRule(lines, k, n) ==
    /\ Qualifying(lines[k])
    /\ Len(lines[k]) = 3 /\ lines[k][2] = "rule" /\ lines[k][3] = n

\* no qualifying line names, as its second token, a rule that the lines declare
\* but have not declared before that line
NoCallBeforeDeclaration(lines) ==
    \A i \in DOMAIN lines :
        Qualifying(lines[i]) /\ (\E k \in DOMAIN lines : DeclaresRule(lines, k, lines[i][2]))
            => \E k \in 1..(i - 1) : DeclaresRule(lines, k, lines[i][2])

\* C20, amended: when no qualifying line of the log has as second token the
\* name of a rule that is declared only further down the log, running
\* parse_logfile a second time over the same lines against the same store
\* leaves the set of targets and every target's deps, deps_rev, incs and
\* incs_rev exactly as they were after the first run.
C20_RerunLeavesGraphDeclaredFirst ==
    [][(/\ ret.op = "parse_logfile" /\ ret'.op = "parse_logfile"
        /\ ret'.arg = ret.arg + 1
        /\ NoCallBeforeDeclaration(log))
           => Graph(db') = Graph(db)]_vars

\* C20 witness: a log that declares S, invokes it on a and makes a depend on b
\* has been read twice: the invocation has made a call in either run, and a
\* still has the one dependency b
C20_Witness ==
    /\ ret.op = "parse_logfile" /\ ret.arg = 2 /\ ~ret.err
    /\ log = << <<">>", "rule", "S">>, <<">>", "S", "a">>,
                <<">>", "Depends", "a", ":", "b">> >>
    /\ NoCallBeforeDeclaration(log)
    /\ Len(db.C) = 2
    /\ NamesOf(db.T[DictGet(db.targets, "a")].deps) = <<"b">>
    /\ Len(db.targets) = 2

---------------------------------------------------------------------------
(* The D5 parser reading a log file and the same file less one line: *)
(* SpecRemove                                                        *)

\* the lines of the log files read here: a declaration, invocations at depth
\* 1, 2 and 3, lines of no known shape at depth 1, 2 and 3 and a dependency
\* line
LinesRemove ==
    {<<">>", "rule", "S">>, <<">>", "S", "a">>, <<">>>>", "S", "b", ":", "a">>,
     <<">>>>>>", "S", "b">>, <<">>", "foo", "a">>, <<">>>>", "foo", "a">>,
     <<">>>>>>", "foo", "a">>, <<">>", "Depends", "a", ":", "b">>}

\* a parser has been made for an empty database and a log file is there; log
\* holds the lines of the file
InitRemove ==
    /\ db = NewDatabase
    /\ ret = NoRet
    /\ log \in UNION {[1..n -> LinesRemove] : n \in 0..MaxLines}
    /\ rule_stack = <<BaseFrame>>
    /\ trace = <<>>
    /\ fix_pc = 0

NextRemove == ParseLogfile

SpecRemove == InitRemove /\ [][NextRemove]_vars

---------------------------------------------------------------------------
(* Claims about lines of no known shape (SpecRemove) *)

\* the lines without line k
RemoveLine(lines, k) == SubSeq(lines, 1, k - 1) \o SubSeq(lines, k + 1, Len(lines))

\* the database a new parser has made of the first n of the lines
DbAfter(lines, n) == parse_logfile(NewDatabase, SubSeq(lines, 1, n)).db

\* line k of the lines is a qualifying line that matches no classifier when a
\* new parser reads the lines into an empty database
MatchesNothing(lines, k) ==
    /\ Qualifying(lines[k])
    /\ ~parse_decl_line(NewDatabase, lines[k]).hit
    /\ ~parse_set_line(NewDatabase, lines[k]).hit
    /\ ~parse_dep_line(NewDatabase, lines[k]).hit
    /\ ~parse_inc_line(NewDatabase, lines[k]).hit
    /\ get_rule(DbAfter(lines, k - 1), lines[k][2]) = 0

\* the first run over the log file is complete
FirstRunDone == ret.op = "parse_logfile" /\ ret.arg = 1 /\ ~ret.err

\* C21 as stated: for every trace, removing a qualifying line that matches no
\* classifier yields the same final store, including the same caller and
\* sub_calls links of every RuleCall.
C21_UnmatchedLineLeavesNoTrace ==
    FirstRunDone =>
        \A k \in DOMAIN log :
            MatchesNothing(log, k) => DbAfter(RemoveLine(log, k), Len(log) - 1) = db

\* the database without the caller and sub_calls links of its RuleCalls
WithoutLinks(d) ==
    [d EXCEPT !.C = [c \in DOMAIN d.C |->
                        [d.C[c] EXCEPT !.caller = 0, !.sub_calls = <<>>]]]

\* the number of frames on the stack when a new parser has read the first n of
\* the lines
StackAfter(lines, n) == Len(parse_logfile(NewDatabase, SubSeq(lines, 1, n)).rs)

\* the first qualifying line after line k, if there is one, pops the frame
\* that line k pushed: its decoded depth is less than the stack size line k
\* left
NextLinePopsFrame(lines, k) ==
    \A j \in (k + 1)..Len(lines) :
        (/\ Qualifying(lines[j])
         /\ \A i \in (k + 1)..(j - 1) : ~Qualifying(lines[i]))
        => get_rule_depth(lines[j][1]) < StackAfter(lines, k)

\* C21, amended: removing a qualifying line that matches no classifier yields
\* the same targets, edges, variables, rules and RuleCalls with the same
\* arguments; the caller and sub_calls links are the same as well when the
\* next qualifying line pops the frame the removed line pushed (or there is
\* no later qualifying line), and can differ otherwise, for the line leaves a
\* frame without a call on the stack.
C21_UnmatchedLineLeavesOnlyAFrame ==
    FirstRunDone =>
        \A k \in DOMAIN log :
            MatchesNothing(log, k) =>
                LET without == DbAfter(RemoveLine(log, k), Len(log) - 1)
                IN /\ WithoutLinks(without) = WithoutLinks(db)
                   /\ NextLinePopsFrame(log, k) => without = db

\* a file was read where a line of no known shape stands between a call and a
\* deeper call, its frame still on the stack when the deeper call is read:
\* without the line the store has other links and is the same otherwise
C21_Witness ==
    /\ FirstRunDone
    /\ \E k \in DOMAIN log :
          /\ MatchesNothing(log, k)
          /\ ~NextLinePopsFrame(log, k)
          /\ DbAfter(RemoveLine(log, k), Len(log) - 1) # db
          /\ DbAfter(RemoveLine(log, k), Len(log) - 1).C # <<>>

---------------------------------------------------------------------------
(* The queries on a graph whose inclusion edges may form cycles: SpecCycle *)

\* the targets of the graph: a root, two targets that include each other or
\* themselves, and a leaf
CycleNames == <<"r", "a", "b", "d">>

\* the database after get_target on the first n of the names
RECURSIVE CycleStore(_)
CycleStore(n) ==
    IF n = 0 THEN NewDatabase ELSE get_target(CycleStore(n - 1), CycleNames[n]).db

\* the store holds the four targets and no edges
InitCycle ==
    /\ db = CycleStore(Len(CycleNames))
    /\ ret = NoRet
    /\ log = <<>>
    /\ rule_stack = <<BaseFrame>>
    /\ trace = <<>>
    /\ fix_pc = 0

\* the targets named a and b
Includers == {DictGet(db.targets, "a"), DictGet(db.targets, "b")}

\* add_inclusion between a and b in every direction, themselves included;
\* add_dependency from the root to them and from them to the leaf; the four
\* queries with their default arguments
NextCycle ==
    \/ \E x \in Includers, y \in Includers : AddInclusion(x, y)
    \/ \E y \in Includers : AddDependency(DictGet(db.targets, "r"), y)
    \/ \E x \in Includers : AddDependency(x, DictGet(db.targets, "d"))
    \/ \E n \in {"r", "a", "b"} : QueryDeps(n)
    \/ \E n \in {"r", "a", "b"} : QueryAllDepsDf(n)
    \/ \E n \in {"r", "a", "b"} : QueryAllDepsBf(n)
    \/ \E n \in {"r", "a", "b"} : QueryDepChains(n, NoMaxDepth)

SpecCycle == InitCycle /\ [][NextCycle]_vars

---------------------------------------------------------------------------
(* Claims about inclusion cycles (SpecCycle) *)

\* the targets reached from the targets of S over at most n edges of the
\* kind given by Succ, S included
RECURSIVE ReachIn(_, _, _)
ReachIn(Succ(_), S, n) ==
    IF n = 0 THEN S
    ELSE LET R == ReachIn(Succ, S, n - 1)
         IN R \cup UNION {Succ(t) : t \in R}

\* the targets a target includes
IncsOf(t) == Range(db.T[t].incs)

\* the targets reached from a target over inclusion edges, itself included
IncReach(t) == ReachIn(IncsOf, {t}, Len(db.T))

\* an inclusion cycle is reached from the target over inclusion edges
OnIncCycle(t) ==
    \E u \in IncReach(t) : u \in ReachIn(IncsOf, IncsOf(u), Len(db.T))

\* the effective direct dependencies of a target, as a set
EffDeps(t) == UNION {Range(db.T[u].deps) : u \in IncReach(t)}

\* the targets a closure of the target expands: the target and what is reached
\* from it over effective dependencies
Expanded(t) == ReachIn(EffDeps, {t}, Len(db.T))

\* C22: on a graph whose inclusion edges contain a cycle, deps(target) fails
\* with CyclicInclusion when the target reaches the cycle over inclusion
\* edges, and each closure fails when a target it expands does; every query
\* ends, and it ends without the failure when no cycle is reached.
C22_CyclicInclusionFails ==
    /\ ret.op = "deps" =>
          (ret.err <=> OnIncCycle(DictGet(db.targets, ret.name)))
    /\ ret.op \in {"all_deps_df", "all_deps_bf", "dep_chains"} =>
          (ret.err <=> \E t \in Expanded(DictGet(db.targets, ret.name)) : OnIncCycle(t))

\* a closure of the root failed on a graph where the root reaches no cycle
\* over inclusion edges but depends on a target that includes itself
C22_Witness ==
    /\ ret.op \in {"all_deps_df", "all_deps_bf", "dep_chains"}
    /\ ret.name = "r"
    /\ ret.err
    /\ ~OnIncCycle(DictGet(db.targets, "r"))
    /\ \E t \in DOMAIN db.T : InList(db.T[t].incs, t)

---------------------------------------------------------------------------
(* The D5 parser reading lines with markers of every length: SpecMarkers *)

\* the markers of length 1 to 6 and one that holds a '|'
AllMarkers == {">", ">>", ">|", ">>>", ">>>>", ">>>>>", ">>>>>>"}

\* the lines read here: a declaration, an invocation behind every marker and
\* a line that is not d5 output
LinesMarkers ==
    {<<">>", "rule", "S">>, <<"note", "S", "a">>}
    \cup {<<m, "S", "a">> : m \in AllMarkers}

NextMarkers == \E words \in LinesMarkers : ParseLine(words)

SpecMarkers == Init /\ [][NextMarkers]_vars

---------------------------------------------------------------------------
(* Claims about the decoding of markers (SpecMarkers) *)

\* C23: for every marker token the decoded depth is length/2 when the length
\* is even and (35 + length)/2 when it is odd; both divisions are exact and
\* the depth is at least 1.
C23_DepthDecoding ==
    \A i \in DOMAIN trace :
        trace[i].qualifying =>
            LET n == Len(Chars(trace[i].line[1]))
            IN /\ n % 2 = 0 => 2 * trace[i].depth = n
               /\ n % 2 = 1 => 2 * trace[i].depth = even_stack_depth_max + n
               /\ trace[i].depth >= 1

\* lines behind a marker of even length and behind markers of odd length,
\* the shortest marker among them, have been read
C23_Witness ==
    /\ \E i \in DOMAIN trace : trace[i].line[1] = ">>>>" /\ trace[i].depth = 2
    /\ \E i \in DOMAIN trace : trace[i].line[1] = ">" /\ trace[i].depth = 18
    /\ \E i \in DOMAIN trace : trace[i].line[1] = ">>>>>" /\ trace[i].depth = 20

---------------------------------------------------------------------------
(* Claims about the rule stack (SpecD5) *)

\* C24 as stated: immediately after a qualifying line is processed the stack
\* size is the line's decoded depth + 1.
C24_StackSizeIsDepthPlusOne ==
    \A i \in DOMAIN trace :
        trace[i].qualifying => trace[i].stack = trace[i].depth + 1

\* the stack size before line i of the trace was read
StackBefore(i) == IF i = 1 THEN 1 ELSE trace[i - 1].stack

\* the smaller of two numbers
Min(a, b) == IF a < b THEN a ELSE b

\* C24, amended: frames are popped only while the stack holds more frames than
\* the line's decoded depth and none is added to fill a gap, so after a
\* qualifying line the stack size is min(size before, decoded depth) + 1: the
\* decoded depth + 1 when the stack held at least that many frames, and less
\* when the line is more than one level deeper than the stack.  A line that
\* does not qualify leaves the stack as it was.
C24_StackSizeAfterLine ==
    /\ Len(rule_stack) = StackBefore(Len(trace) + 1)
    /\ \A i \in DOMAIN trace :
          trace[i].stack = IF trace[i].qualifying
                           THEN Min(StackBefore(i), trace[i].depth) + 1
                           ELSE StackBefore(i)

\* a line two levels deeper than the stack was read after frames had been
\* popped for a shallower line
C24_Witness ==
    \E i \in DOMAIN trace, j \in DOMAIN trace :
        /\ i < j
        /\ trace[i].qualifying /\ trace[i].stack = trace[i].depth + 1
        /\ StackBefore(i) > trace[i].depth
        /\ trace[j].qualifying /\ trace[j].stack < trace[j].depth + 1

\* the line of the trace on which a call was read
LineOfCall(c) == CHOOSE i \in DOMAIN trace : trace[i].call = c

\* the lines of the trace whose call was given a caller
LinesWithCaller == {j \in DOMAIN trace : trace[j].call # 0 /\ db.C[trace[j].call].caller # 0}

\* C30 as stated: whenever the parser sets the caller of a call read at decoded
\* depth d, that caller was read on a line of decoded depth exactly d - 1,
\* never at the same or a deeper depth.
C30_CallerOneLevelShallower ==
    \A j \in LinesWithCaller :
        trace[LineOfCall(db.C[trace[j].call].caller)].depth = trace[j].depth - 1

\* C30, amended: the caller is the call of the frame directly below the line's
\* own frame on the stack, the frame of the last earlier line that left one
\* frame less on the stack; its decoded depth is exactly d - 1 when neither
\* line skipped a level (each left its decoded depth + 1 frames on the
\* stack), and can be smaller, equal or greater otherwise.
C30_CallerIsFrameBelow ==
    \A j \in LinesWithCaller :
        LET i == LineOfCall(db.C[trace[j].call].caller)
        IN /\ i < j
           /\ trace[i].stack = trace[j].stack - 1
           /\ \A k \in (i + 1)..(j - 1) :
                 trace[k].qualifying => trace[k].stack > trace[i].stack
           /\ (/\ trace[i].stack = trace[i].depth + 1
               /\ trace[j].stack = trace[j].depth + 1)
              => trace[i].depth = trace[j].depth - 1

\* a call was given a caller one level up with no level skipped, and a call
\* was given a caller read at a greater depth than its own
C30_Witness ==
    /\ \E j \in LinesWithCaller :
          LET i == LineOfCall(db.C[trace[j].call].caller)
          IN /\ trace[i].stack = trace[i].depth + 1
             /\ trace[j].stack = trace[j].depth + 1
    /\ \E j \in LinesWithCaller :
          trace[LineOfCall(db.C[trace[j].call].caller)].depth > trace[j].depth

---------------------------------------------------------------------------
(* The D5 parser reading lines whose second token is a keyword and the *)
(* name of a rule at once: SpecClassify                                *)

\* the lines read here: declarations of a rule S and of rules named like the
\* keywords, a line of each of the other shapes, and invocations of the rules
LinesClassify ==
    {<<">>", "rule", "S">>, <<">>", "rule", "rule">>, <<">>", "rule", "Depends">>,
     <<">>", "rule", "set">>, <<">>", "rule", "Includes">>,
     <<">>", "Depends", "a", ":", "b">>, <<">>", "Includes", "a", ":", "b">>,
     <<">>", "set", "x", "on", "a", "=", "v">>,
     <<">>", "S", "a">>, <<">>", "rule", "a", "b">>, <<">>", "Depends", "a", "b">>}

NextClassify == \E words \in LinesClassify : ParseLine(words)

SpecClassify == Init /\ [][NextClassify]_vars

---------------------------------------------------------------------------
(* Claims about the classifiers (SpecClassify) *)

\* the shapes of a qualifying line, read off its words
DeclShape(w) == Len(w) = 3 /\ w[2] = "rule"
SetShape(w) ==
    Len(w) >= 6 /\ w[2] = "set" /\ w[4] = "on" /\ \E k \in 6..Len(w) : w[k] = "="
DepShape(w) ==
    Len(w) >= 4 /\ w[2] \in {"Depends", "DEPENDS"} /\ \E k \in 4..Len(w) : w[k] = ":"
IncShape(w) ==
    Len(w) >= 4 /\ w[2] \in {"Includes", "INCLUDES"} /\ \E k \in 4..Len(w) : w[k] = ":"
InvocationShape(w) == ~(DeclShape(w) \/ SetShape(w) \/ DepShape(w) \/ IncShape(w))

\* what a database holds of each kind: the rules declared, the RuleCalls, and
\* per target name the variables, the dependency edges and the inclusion edges
NamesOfIn(d, ts) == [i \in DOMAIN ts |-> d.T[ts[i]].name]
RulesIn(d) == {d.R[r].name : r \in DOMAIN d.R}
VarsIn(d) == {<<d.T[t].name, d.T[t].variables>> : t \in {u \in DOMAIN d.T : d.T[u].variables # <<>>}}
DepsIn(d) == {<<d.T[t].name, NamesOfIn(d, d.T[t].deps)>> : t \in {u \in DOMAIN d.T : d.T[u].deps # <<>>}}
IncsIn(d) == {<<d.T[t].name, NamesOfIn(d, d.T[t].incs)>> : t \in {u \in DOMAIN d.T : d.T[u].incs # <<>>}}

\* the line the step has read
LineRead == trace'[Len(trace')].line

\* C25: the classifiers are tried in the order declaration, assignment,
\* dependency, inclusion, invocation and the first match wins: a qualifying
\* line changes what one classifier changes at most, and a line of the
\* declaration, set, dependency or inclusion shape makes no RuleCall even when
\* its second token names a declared rule.
C25_FirstClassifierWins ==
    [][Qualifying(LineRead) =>
         /\ DeclShape(LineRead) =>
               /\ db'.C = db.C /\ db'.T = db.T
               /\ RulesIn(db') = RulesIn(db) \cup {LineRead[3]}
         /\ SetShape(LineRead) =>
               /\ db'.C = db.C /\ db'.R = db.R
               /\ DepsIn(db') = DepsIn(db) /\ IncsIn(db') = IncsIn(db)
               /\ VarsIn(db') # VarsIn(db) \/ db' = db
         /\ DepShape(LineRead) =>
               /\ db'.C = db.C /\ db'.R = db.R
               /\ VarsIn(db') = VarsIn(db) /\ IncsIn(db') = IncsIn(db)
         /\ IncShape(LineRead) =>
               /\ db'.C = db.C /\ db'.R = db.R
               /\ VarsIn(db') = VarsIn(db) /\ DepsIn(db') = DepsIn(db)
         /\ InvocationShape(LineRead) =>
               /\ RulesIn(db') = RulesIn(db)
               /\ VarsIn(db') = VarsIn(db)
               /\ DepsIn(db') = DepsIn(db) /\ IncsIn(db') = IncsIn(db)
    ]_vars

\* a dependency line was read while a rule named Depends was declared: the
\* edge is there and no RuleCall was made; the same words without the ':'
\* were read as an invocation of that rule
C25_Witness ==
    /\ \E i \in DOMAIN trace, j \in DOMAIN trace, k \in DOMAIN trace :
          /\ i < j /\ i < k
          /\ trace[i].line = <<">>", "rule", "Depends">>
          /\ trace[j].line = <<">>", "Depends", "a", ":", "b">> /\ trace[j].call = 0
          /\ trace[k].line = <<">>", "Depends", "a", "b">> /\ trace[k].call # 0
    /\ DepsIn(db) = {<<"a", <<"b">> >>}

\* the lines of a trace that declare the rule called n
DeclaredAt(tr, n) ==
    {i \in DOMAIN tr :
        Qualifying(tr[i].line) /\ DeclShape(tr[i].line) /\ tr[i].line[3] = n}

\* the lines of a trace that invoke the rule called n after a declaration of it
InvokedAfterDeclaration(tr, n) ==
    {j \in DOMAIN tr :
        /\ Qualifying(tr[j].line) /\ InvocationShape(tr[j].line)
        /\ tr[j].line[2] = n
        /\ \E i \in DeclaredAt(tr, n) : i < j}

\* C26: an invocation line creates a RuleCall if and only if its second token
\* names a rule already declared when the line is processed; an invocation
\* that precedes the declaration changes nothing in the store, and the later
\* declaration records no call for it: a rule holds one call per invocation
\* line read after its declaration.
C26_CallOnlyIfDeclaredBefore ==
    [][/\ (Qualifying(LineRead) /\ InvocationShape(LineRead)) =>
             IF LineRead[2] \in RulesIn(db)
             THEN /\ Len(db'.C) = Len(db.C) + 1
                  /\ db'.R[db'.C[Len(db'.C)].rule].name = LineRead[2]
             ELSE db' = db
       /\ \A r \in DOMAIN db'.R :
             Len(db'.R[r].calls) = Cardinality(InvokedAfterDeclaration(trace', db'.R[r].name))
    ]_vars

\* a rule was invoked, then declared, then invoked again: the store holds one
\* RuleCall, that of the last line
C26_Witness ==
    /\ Len(trace) = 3
    /\ trace[1].line = <<">>", "S", "a">> /\ trace[1].call = 0
    /\ trace[2].line = <<">>", "rule", "S">>
    /\ trace[3].line = <<">>", "S", "a">> /\ trace[3].call = 1
    /\ Len(db.C) = 1

---------------------------------------------------------------------------
(* The D5 parser reading assignment, dependency and inclusion lines: *)
(* SpecEdges                                                         *)

\* the lines read here: assignments to several targets, of a second value, of
\* no value and to a variable called '='; dependency lines in the spellings
\* Depends, DEPENDS and depends, with two names on either side, a repeated
\* name and nothing before the ':'; a declaration of a rule called depends;
\* inclusion lines in both spellings
LinesEdges ==
    {<<">>", "set", "x", "on", "a", "b", "=", "v", "w">>,
     <<">>", "set", "x", "on", "a", "=", "w">>,
     <<">>", "set", "y", "on", "b", "=">>,
     <<">>", "set", "=", "on", "a", "=", "v">>,
     <<">>", "Depends", "a", "b", ":", "c", "a">>,
     <<">>", "DEPENDS", "a", ":", "b", "c">>,
     <<">>", "depends", "a", ":", "b">>,
     <<">>", "rule", "depends">>,
     <<">>", "Includes", "a", "b", ":", "c", "a">>,
     <<">>", "INCLUDES", "a", ":", "b">>,
     <<">>", "Depends", ":", "a", ":", "b">>}

NextEdges == \E words \in LinesEdges : ParseLine(words)

SpecEdges == Init /\ [][NextEdges]_vars

---------------------------------------------------------------------------
(* Claims about assignment, dependency and inclusion lines (SpecEdges) *)

\* the position of the first token tok of the words at or after position from
FirstAt(w, tok, from) ==
    CHOOSE k \in from..Len(w) : w[k] = tok /\ \A j \in from..(k - 1) : w[j] # tok

\* the value of a variable on the target called n in a database; <<"unset">>
\* when the target or the variable is not there
VarOf(d, n, variable) ==
    IF DictHas(d.targets, n) /\ DictHas(d.T[DictGet(d.targets, n)].variables, variable)
    THEN <<"set", DictGet(d.T[DictGet(d.targets, n)].variables, variable)>>
    ELSE <<"unset">>

\* the variables of the target called n in a database
VarsOf(d, n) == IF DictHas(d.targets, n) THEN d.T[DictGet(d.targets, n)].variables ELSE <<>>

\* C27 as stated: for a variable-assignment line every target named between
\* 'on' and the '=' token found at or after index 5 ends with variables[name]
\* equal to all tokens after that '=', whatever the variable held before, and
\* no other target's variables change.
C27_SetLineAssignsNamedTargets ==
    [][(Qualifying(LineRead) /\ SetShape(LineRead)) =>
         LET eq == FirstAt(LineRead, "=", 6)
             named == {LineRead[k] : k \in 5..(eq - 1)}
             values == SubSeq(LineRead, eq + 1, Len(LineRead))
         IN /\ \A n \in named : VarOf(db', n, LineRead[3]) = <<"set", values>>
            /\ \A t \in DOMAIN db'.T :
                  db'.T[t].name \notin named
                  => db'.T[t].variables = VarsOf(db, db'.T[t].name)
    ]_vars

\* the names before the first ':' of a dependency or inclusion line, and the
\* names after it
LeftNames(w) == SubSeq(w, 3, FirstAt(w, ":", 3) - 1)
RightNames(w) == SubSeq(w, FirstAt(w, ":", 3) + 1, Len(w))

\* old followed by the names of rhs that are new to it, each once, in the
\* order of rhs
RECURSIVE AppendedInOrder(_, _, _)
AppendedInOrder(old, rhs, n) ==
    IF n = 0 THEN old
    ELSE LET front == AppendedInOrder(old, rhs, n - 1)
         IN IF InList(front, rhs[n]) THEN front ELSE Append(front, rhs[n])

\* the names of the deps or incs of the target called n in a database
EdgesOf(d, kind, n) ==
    IF ~DictHas(d.targets, n) THEN <<>>
    ELSE IF kind = "deps" THEN NamesOfIn(d, d.T[DictGet(d.targets, n)].deps)
         ELSE NamesOfIn(d, d.T[DictGet(d.targets, n)].incs)

\* the names of the deps_rev or incs_rev of the target called n in a database
RevEdgesOf(d, kind, n) ==
    IF ~DictHas(d.targets, n) THEN {}
    ELSE IF kind = "deps" THEN {d.T[t].name : t \in d.T[DictGet(d.targets, n)].deps_rev}
         ELSE {d.T[t].name : t \in d.T[DictGet(d.targets, n)].incs_rev}

\* every Target object an edge of the database leads to is the one the store
\* returns for its name
Canonical(d) ==
    \A t \in DOMAIN d.T :
        \A u \in Range(d.T[t].deps) \cup d.T[t].deps_rev
                 \cup Range(d.T[t].incs) \cup d.T[t].incs_rev :
            u \in DOMAIN d.T /\ DictGet(d.targets, d.T[u].name) = u

\* the step has recorded the edges of the given kind for the cross product of
\* the names xs and ys, each x's new ones appended in the order of ys
CrossProductRecorded(kind, xs, ys) ==
    /\ \A i \in DOMAIN xs, j \in DOMAIN ys :
          /\ InList(EdgesOf(db', kind, xs[i]), ys[j])
          /\ xs[i] \in RevEdgesOf(db', kind, ys[j])
    /\ \A i \in DOMAIN xs :
          EdgesOf(db', kind, xs[i]) = AppendedInOrder(EdgesOf(db, kind, xs[i]), ys, Len(ys))

\* C28: a dependency line with a name before the ':' and a name after it
\* leaves every (x, y) of the cross product with y in x.deps and x in
\* y.deps_rev, through canonical store targets, each x's new dependencies
\* appended in right-hand-side order; an inclusion line does the same on incs
\* and incs_rev and leaves deps and deps_rev unchanged.
C28_EdgeLinesRecordCrossProduct ==
    [][(/\ Qualifying(LineRead)
        /\ DepShape(LineRead) \/ IncShape(LineRead)
        /\ LeftNames(LineRead) # <<>> /\ RightNames(LineRead) # <<>>) =>
         /\ Canonical(db')
         /\ DepShape(LineRead) =>
               CrossProductRecorded("deps", LeftNames(LineRead), RightNames(LineRead))
         /\ IncShape(LineRead) =>
               /\ CrossProductRecorded("incs", LeftNames(LineRead), RightNames(LineRead))
               /\ \A n \in DOMAIN db'.T :
                     /\ EdgesOf(db', "deps", db'.T[n].name) = EdgesOf(db, "deps", db'.T[n].name)
                     /\ RevEdgesOf(db', "deps", db'.T[n].name) = RevEdgesOf(db, "deps", db'.T[n].name)
    ]_vars

\* a dependency line and an inclusion line with two names on either side were
\* read after a line had given a its first dependencies: a depends on b, c
\* and itself, in the order the edges came, and includes c and itself
C28_Witness ==
    /\ Len(trace) = 3
    /\ trace[1].line = <<">>", "DEPENDS", "a", ":", "b", "c">>
    /\ trace[2].line = <<">>", "Depends", "a", "b", ":", "c", "a">>
    /\ trace[3].line = <<">>", "Includes", "a", "b", ":", "c", "a">>
    /\ EdgesOf(db, "deps", "a") = <<"b", "c", "a">>
    /\ EdgesOf(db, "deps", "b") = <<"c", "a">>
    /\ EdgesOf(db, "incs", "a") = <<"c", "a">>
    /\ RevEdgesOf(db, "incs", "a") = {"a", "b"}

\* the dependency shape with the keyword in any of the given spellings
DepShapeSpelled(w, spellings) ==
    Len(w) >= 4 /\ w[2] \in spellings /\ \E k \in 4..Len(w) : w[k] = ":"

\* C29 as stated: a qualifying line of the dependency shape whose second token
\* is any case variant of the keyword ('depends', 'Depends', 'DEPENDS')
\* records the dependency edges.
C29_DependsAnyCase ==
    [][(/\ Qualifying(LineRead)
        /\ DepShapeSpelled(LineRead, {"depends", "Depends", "DEPENDS"})
        /\ LeftNames(LineRead) # <<>> /\ RightNames(LineRead) # <<>>) =>
         \A i \in DOMAIN LeftNames(LineRead), j \in DOMAIN RightNames(LineRead) :
             InList(EdgesOf(db', "deps", LeftNames(LineRead)[i]), RightNames(LineRead)[j])
    ]_vars

\* C29, amended: the keyword is matched in exactly the two spellings
\* 'Depends' and 'DEPENDS', which record the dependency edges; a line with
\* any other case variant, such as 'depends', is no dependency line: it
\* records no edge, and is read as an invocation of a rule of that name when
\* one is declared and changes nothing otherwise.
C29_DependsTwoSpellings ==
    [][/\ (/\ Qualifying(LineRead)
           /\ DepShapeSpelled(LineRead, {"Depends", "DEPENDS"})
           /\ LeftNames(LineRead) # <<>> /\ RightNames(LineRead) # <<>>) =>
             \A i \in DOMAIN LeftNames(LineRead), j \in DOMAIN RightNames(LineRead) :
                 /\ InList(EdgesOf(db', "deps", LeftNames(LineRead)[i]), RightNames(LineRead)[j])
                 /\ LeftNames(LineRead)[i] \in RevEdgesOf(db', "deps", RightNames(LineRead)[j])
       /\ (Qualifying(LineRead) /\ DepShapeSpelled(LineRead, {"depends"})) =>
             /\ DepsIn(db') = DepsIn(db)
             /\ \A t \in DOMAIN db'.T :
                   RevEdgesOf(db', "deps", db'.T[t].name) = RevEdgesOf(db, "deps", db'.T[t].name)
             /\ IF "depends" \in RulesIn(db)
                THEN Len(db'.C) = Len(db.C) + 1
                ELSE db' = db
    ]_vars

\* lines in the three spellings were read, 'depends' first: only the other
\* two have left an edge
C29_Witness ==
    /\ Len(trace) = 3
    /\ trace[1].line = <<">>", "depends", "a", ":", "b">>
    /\ trace[2].line = <<">>", "DEPENDS", "a", ":", "b", "c">>
    /\ trace[3].line = <<">>", "Depends", "a", "b", ":", "c", "a">>
    /\ EdgesOf(db, "deps", "a") = <<"b", "c", "a">>
    /\ EdgesOf(db, "deps", "b") = <<"c", "a">>

---------------------------------------------------------------------------
(* Claims about forward and reverse edges (Spec) *)

\* in the database, forward and reverse incidence agree and no deps or incs
\* sequence holds a target twice
IncidenceAgrees(d) ==
    \A a \in DOMAIN d.T, b \in DOMAIN d.T :
        /\ InList(d.T[a].deps, b) <=> a \in d.T[b].deps_rev
        /\ InList(d.T[a].incs, b) <=> a \in d.T[b].incs_rev
        /\ Cardinality({i \in DOMAIN d.T[a].deps : d.T[a].deps[i] = b}) <= 1
        /\ Cardinality({i \in DOMAIN d.T[a].incs : d.T[a].incs[i] = b}) <= 1

\* the step was a call of add_dependency or add_inclusion
StepAdded(kind) == Len(log') = Len(log) + 1 /\ log'[Len(log')].op = kind

\* C32: in every reachable state built through canonical store targets by
\* add_dependency and add_inclusion, B occurs in A.deps iff A is in
\* B.deps_rev, B occurs in A.incs iff A is in B.incs_rev and no deps or incs
\* sequence contains a duplicate; add_dependency never changes any incs or
\* incs_rev and add_inclusion never changes any deps or deps_rev.
C32_IncidenceAgrees ==
    /\ []IncidenceAgrees(db)
    /\ [][/\ StepAdded("dep") =>
                \A t \in DOMAIN db.T :
                    db'.T[t].incs = db.T[t].incs /\ db'.T[t].incs_rev = db.T[t].incs_rev
          /\ StepAdded("inc") =>
                \A t \in DOMAIN db.T :
                    db'.T[t].deps = db.T[t].deps /\ db'.T[t].deps_rev = db.T[t].deps_rev
         ]_vars

\* add_dependency and add_inclusion were both called on the same pair of
\* different targets, add_dependency twice
C32_Witness ==
    /\ Len(log) = 3
    /\ log[1].op = "dep" /\ log[2].op = "inc" /\ log[3].op = "dep"
    /\ log[1].a = log[2].a /\ log[1].b = log[2].b /\ log[1].a # log[1].b
    /\ log[3] = log[1]
    /\ db.T[log[1].a].deps = <<log[1].b>>
    /\ db.T[log[1].a].incs = <<log[1].b>>

---------------------------------------------------------------------------
(* Claims about caller and sub_calls links (SpecD5) *)

\* C33: after the D5 parser has processed any sequence of lines, c.caller is p
\* iff c occurs in p.sub_calls, c occurs there exactly once, no call occurs in
\* the sub_calls of two different calls, and each sub_calls list is in the
\* order the sub-invocations appeared in the trace.
C33_CallerAndSubCallsAgree ==
    /\ \A c \in DOMAIN db.C, p \in DOMAIN db.C :
          /\ db.C[c].caller = p <=> InList(db.C[p].sub_calls, c)
          /\ Cardinality({i \in DOMAIN db.C[p].sub_calls : db.C[p].sub_calls[i] = c}) <= 1
    /\ \A c \in DOMAIN db.C :
          Cardinality({p \in DOMAIN db.C : InList(db.C[p].sub_calls, c)}) <= 1
    /\ \A p \in DOMAIN db.C :
          \A i \in DOMAIN db.C[p].sub_calls, j \in DOMAIN db.C[p].sub_calls :
              i < j => LineOfCall(db.C[p].sub_calls[i]) < LineOfCall(db.C[p].sub_calls[j])

\* a call has made two sub-calls
C33_Witness ==
    \E p \in DOMAIN db.C :
        /\ Len(db.C[p].sub_calls) = 2
        /\ db.C[p].sub_calls[1] # db.C[p].sub_calls[2]
        /\ \A i \in 1..2 : db.C[db.C[p].sub_calls[i]].caller = p

---------------------------------------------------------------------------
(* Claims about the assertion of set_caller (SpecRerun) *)

\* C34: the assertion in set_caller is unreachable from the D5 parser: for
\* every sequence of lines, repeated parse_logfile runs on the same store
\* included, set_caller is called only on a RuleCall whose caller is unset, so
\* no run ends with the AssertionError.
C34_SetCallerAssertionUnreachable == ~ret.err

\* the file was read twice and each run gave a caller to a call it had made
C34_Witness ==
    /\ ret.op = "parse_logfile" /\ ret.arg = 2
    /\ Cardinality({c \in DOMAIN db.C : db.C[c].caller # 0}) >= 2
    /\ \E c \in DOMAIN db.C : db.C[c].caller # 0 /\ db.C[c].id_number >= 2

---------------------------------------------------------------------------
(* ui.py: RuleCallSubmode.do_call_stack on the calls the D5 parser has made: *)
(* SpecCallStack                                                             *)

\* the first loop of do_call_stack, "while caller:", with the callers stacked
\* so far; the loop does not end when a caller comes round again
RECURSIVE call_stack_loop(_, _, _)
call_stack_loop(d, caller, stack) ==
    IF caller = 0 THEN [hangs |-> FALSE, stack |-> stack]
    ELSE IF InList(stack, caller) THEN [hangs |-> TRUE, stack |-> stack]
    ELSE call_stack_loop(d, d.C[caller].caller, Append(stack, caller))

\* the second loop of do_call_stack, "while len(stack) > 0: print(stack.pop())":
\* the calls printed
RECURSIVE print_popped(_)
print_popped(stack) ==
    IF stack = <<>> THEN <<>>
    ELSE <<stack[Len(stack)]>> \o print_popped(SubSeq(stack, 1, Len(stack) - 1))

\* a plausible slip in do_call_stack: the stack is printed from its first entry
do_call_stack_unreversed(d, call) ==
    LET l == call_stack_loop(d, d.C[call].caller, <<>>)
    IN [hangs |-> l.hangs, printed |-> IF l.hangs THEN <<>> ELSE l.stack]

\* RuleCallSubmode.do_call_stack(self, arg) with self.call = call
do_call_stack(d, call) ==
    LET l == call_stack_loop(d, d.C[call].caller, <<>>)
    IN [hangs |-> l.hangs, printed |-> IF l.hangs THEN <<>> ELSE print_popped(l.stack)]

\* the lines read here: a declaration, invocations at depth 1, 2 and 3, a line
\* of no known shape and a line that is not d5 output
LinesCallStack ==
    {<<">>", "rule", "S">>, <<">>", "S", "a">>, <<">>>>", "S", "a">>,
     <<">>>>>>", "S", "a">>, <<">>>>", "foo", "a">>, <<"note", "S", "a">>}

\* the call_stack command in the submode of a call of the database
DoCallStack(call) ==
    /\ ~ret.err
    /\ LET r == do_call_stack(db, call)
       IN ret' = [NoRet EXCEPT !.op = "call_stack", !.arg = call, !.val = r.printed,
                               !.err = r.hangs]
    /\ UNCHANGED <<db, log, rule_stack, trace, fix_pc>>

NextCallStack ==
    \/ \E words \in LinesCallStack : ParseLine(words)
    \/ \E call \in DOMAIN db.C : DoCallStack(call)

SpecCallStack == Init /\ [][NextCallStack]_vars

---------------------------------------------------------------------------
(* Claims about the caller relation (SpecCallStack) *)

\* the caller of a call, as a set
CallerOf(c) == IF db.C[c].caller = 0 THEN {} ELSE {db.C[c].caller}

\* C35: the caller relation built by the D5 parser is acyclic: following the
\* caller links from any RuleCall reaches a call without caller, so the
\* call_stack command ends, and it prints the chain of callers with the
\* outermost caller first and the direct caller last.
C35_CallerRelationAcyclic ==
    /\ \A c \in DOMAIN db.C : c \notin ReachIn(CallerOf, CallerOf(c), Len(db.C))
    /\ ret.op = "call_stack" =>
          /\ ~ret.err
          /\ ret.val = <<>> <=> db.C[ret.arg].caller = 0
          /\ ret.val # <<>> =>
                /\ ret.val[Len(ret.val)] = db.C[ret.arg].caller
                /\ db.C[ret.val[1]].caller = 0
                /\ \A i \in 1..(Len(ret.val) - 1) : db.C[ret.val[i + 1]].caller = ret.val[i]

\* the call stack of a call two levels below the outermost call was printed
C35_Witness ==
    /\ ret.op = "call_stack"
    /\ Len(ret.val) = 2
    /\ ret.val[1] # ret.val[2]

---------------------------------------------------------------------------
(* The D5 parser reading lines that do not qualify among lines that do: *)
(* SpecBase                                                             *)

\* the lines read here: an empty line, a line of one token, lines whose first
\* token does not start with '>', a declaration and invocations behind the
\* markers of depth 1, 2 and 18
LinesBase ==
    {<<>>, <<">>">>, <<"note", "S", "a">>, <<"S", "a">>,
     <<">>", "rule", "S">>, <<">>", "S", "a">>, <<">>>>", "S", "a">>,
     <<">", "S", "a">>}

NextBase == \E words \in LinesBase : ParseLine(words)

SpecBase == Init /\ [][NextBase]_vars

---------------------------------------------------------------------------
(* Claims about the base frame (SpecBase) *)

\* the line has fewer than 2 tokens or its first token does not start with '>'
Skipped(w) == Len(w) < 2 \/ Chars(w[1])[1] # ">"

\* C36: the frame stack always keeps its base frame: it is never empty and the
\* base frame never carries a call, so a call read at decoded depth 1 never
\* gets a caller; a line with fewer than 2 tokens or whose first token does
\* not start with '>' changes neither the stack nor the store.
C36_BaseFrameKept ==
    /\ [](/\ Len(rule_stack) >= 1
          /\ rule_stack[1] = BaseFrame
          /\ \A j \in DOMAIN trace :
                (trace[j].call # 0 /\ trace[j].depth = 1) => db.C[trace[j].call].caller = 0)
    /\ [][Skipped(LineRead) => (db' = db /\ rule_stack' = rule_stack)]_vars

\* a line that does not qualify was read between two calls at depth 1
C36_Witness ==
    /\ Len(trace) = 4
    /\ trace[1].line = <<">>", "rule", "S">>
    /\ trace[2].call # 0 /\ trace[2].depth = 1
    /\ Skipped(trace[3].line) /\ ~trace[3].qualifying
    /\ trace[4].call # 0 /\ trace[4].depth = 1
    /\ Len(rule_stack) = 2
===========================================================================
